---- MODULE Spec2Model ----
(***************************************************************************)
(* Model of the kalshi_pipeline execution engine (paper_trading.py) with   *)
(* the store methods (db.py) and order helpers (order_utils.py) it uses.   *)
(* Time is counted in abstract clock ticks; every duration setting is      *)
(* expressed in ticks.                                                     *)
(***************************************************************************)
EXTENDS Integers, Sequences, FiniteSets, TLC

(* ---------------- bounds of the model ---------------- *)
MaxTime == 1
MaxOrders == 2
MaxReconciles == 2

(* ---------------- settings (Settings fields read by the engine) -------- *)
(* One configuration of the engine.  Prices and counts are in the units of *)
(* the code; the durations (cooldown, stale age, reprice window, reprice   *)
(* cooldown, lookback) are scaled to clock ticks, keeping the reprice      *)
(* cooldown no longer than the reprice window.                             *)
paper_trade_enable_queue_management == TRUE
paper_trade_maker_only == TRUE
paper_trade_max_orders_per_cycle == 2
paper_trade_cooldown_minutes == 1
paper_trade_min_price_cents == 8
paper_trade_max_price_cents == 92
paper_trade_contract_count == 1
paper_trade_queue_max_depth == 1
paper_trade_queue_stale_minutes == 1
paper_trade_reprice_window_seconds == 2
paper_trade_reprice_max_per_window == 1
paper_trade_reprice_cooldown_seconds == 1
(* reconcile_open_orders only looks at orders of the last 24 hours *)
ReconcileLookback == 2

(* ---------------- values ---------------- *)
None == 0
NoQueue == -1
Tickers == {"KXHIGHNY-A", "KXBTC15M-A"}
OpenStatuses == {"submitted", "partially_filled"}
TerminalStatuses == {"simulated", "failed", "filled", "canceled"}
OrderStatuses == OpenStatuses \cup TerminalStatuses

(* the builders emit one signal type per series (signals/weather.py, btc.py) *)
SignalTypeOf(ticker) == IF ticker = "KXHIGHNY-A" THEN "weather" ELSE "btc"

(* signals of a tick, already in the order of the |edge_bps| sort; strong  *)
(* says that the signal passes the type, edge and confidence thresholds.   *)
(* model_probability is in percent, confidence in quarters; a builder     *)
(* that gives no probability leaves NoProbability                          *)
NoProbability == -1
Unit == 4
SizedSig(ticker, direction, strong, model_probability, confidence) ==
    [market_ticker |-> ticker, direction |-> direction, strong |-> strong,
     model_probability |-> model_probability, confidence |-> confidence]

Sig(ticker, direction, strong) ==
    SizedSig(ticker, direction, strong,
             IF direction = "buy_yes" THEN 90 ELSE IF direction = "buy_no" THEN 10 ELSE 50,
             Unit)

(* the signal lists a tick may produce *)
SignalLists ==
    { <<>>,
      <<Sig("KXHIGHNY-A", "buy_yes", TRUE)>>,
      <<Sig("KXHIGHNY-A", "buy_no", TRUE), Sig("KXHIGHNY-A", "buy_no", TRUE)>>,
      <<Sig("KXHIGHNY-A", "flat", TRUE), Sig("KXHIGHNY-A", "buy_no", FALSE)>>,
      <<Sig("KXBTC15M-A", "buy_no", FALSE), Sig("KXHIGHNY-A", "buy_yes", TRUE)>> }
(* the signals of a tick are not collected yet *)
NotCollected == <<Sig("", "", FALSE)>>

(* books returned by _best_book_prices for a snapshot; None = no quote *)
NoSnapshot == [yes_bid |-> -1, yes_ask |-> -1, no_bid |-> -1, no_ask |-> -1]
Unset == [yes_bid |-> -2, yes_ask |-> -2, no_bid |-> -2, no_ask |-> -2]
Books == { [yes_bid |-> 41, yes_ask |-> 42, no_bid |-> 58, no_ask |-> 59],
           [yes_bid |-> 2,  yes_ask |-> 4,  no_bid |-> 96, no_ask |-> 98] }
SnapshotChoices == Books \cup {NoSnapshot}

Max2(a, b) == IF a >= b THEN a ELSE b
Min2(a, b) == IF a <= b THEN a ELSE b

VARIABLES
    paper_trading_mode,  \* settings.paper_trading_mode
    now,                 \* now_utc handed to the engine in the current tick
    phase,               \* position of the tick: start, executed, reconciled
    signals,             \* signals of the current tick
    book,                \* snapshots_by_ticker of the current tick
    orders,              \* table paper_trade_orders (row id = index)
    events,              \* table paper_trade_order_events (insertion order)
    pc,                  \* position inside execute / reconcile_open_orders
    cands,               \* execute: candidates not yet visited
    pending,             \* orders built by the running call, not yet inserted
    stats,               \* stats of the running / last call
    allow_reprice,       \* reconcile_open_orders argument
    todo,                \* reconcile: active orders whose status is not fetched yet
    latest_events,       \* reconcile: get_latest_order_events at call start
    still_submitted,     \* reconcile: orders kept for the queue pass
    queue_failed,        \* reconcile: get_queue_positions raised
    reconciles,          \* number of reconcile_open_orders calls so far
    trace,               \* observations of the running / last call (history)
    cancel_log,          \* every successful reprice cancel so far (history)
    trade_settings,      \* settings: sizing mode, arbitrage switch, exposure limits
    arb,                 \* execute: arbitrage opportunities left, and arb_results
    current_exposure     \* execute: current_exposure_dollars, in cents / ExposureScale

execVars == <<trade_settings, arb, current_exposure>>

engineVars == <<paper_trading_mode, now, phase, signals, book, orders, events, pc,
                cands, pending, stats, allow_reprice, todo, latest_events,
                still_submitted, queue_failed, reconciles, trace, cancel_log,
                trade_settings, arb, current_exposure>>

VARIABLES
    bot_settings,                  \* settings.bot_mode, settings.paper_trading_enabled
    paused,                        \* DataPipeline.paused
    runtime_mode,                  \* DataPipeline.runtime_mode
    runtime_auto_trading_enabled,  \* DataPipeline.runtime_auto_trading_enabled
    pending_live_mode,             \* DataPipeline.pending_live_mode
    commands                       \* the commands handled so far (history)

modeVars == <<bot_settings, paused, runtime_mode, runtime_auto_trading_enabled,
              pending_live_mode, commands>>

VARIABLES
    tick           \* the running pipeline tick: kind, gate outcome, observations

pipelineVars == <<tick>>

VARIABLES
    maker          \* one call of _maker_price_for_side: its arguments and result

makerVars == <<maker>>

VARIABLES
    ws,            \* a WSManager: its fields and the position of run()
    wire           \* what went over its sockets, and the waits it slept (history)

wsVars == <<ws, wire>>

VARIABLES
    feed           \* a KalshiFeed: orderbooks, and what the last message was (history)

feedVars == <<feed>>

VARIABLES
    alerts         \* the operational alert filter of the pipeline and its two callers

alertVars == <<alerts>>

VARIABLES
    cycle,         \* one run_once tick, stage by stage: its store writes and its outcome
    runtime,       \* an AsyncRuntime: its tasks, its feeds and the position of run()
    scan           \* one call of scan_bracket_arbitrage: its books and what it returned

opsVars == <<cycle, runtime, scan>>

VARIABLES
    reader,        \* a KalshiFeed handler in the event loop and a reader in the poll thread
    store,         \* the PostgresStore connection shared by the poll thread and the loops
    lifecycle      \* the lifecycle auto-subscribe of AsyncRuntime and the Kalshi replay list

threadVars == <<reader, store, lifecycle>>

serviceVars == <<feedVars, alertVars, opsVars, threadVars>>

vars == <<engineVars, modeVars, pipelineVars, makerVars, wsVars, serviceVars>>

(* ---------------- pure helpers ---------------- *)

(* paper_trading.py _is_actionable *)
is_actionable(signal) == signal.direction \in {"buy_yes", "buy_no"}

(* faulty variant: the ceiling is not checked after the price was clamped *)
maker_price_for_side_unchecked(side, b, maker_only, min_price_cents, max_price_cents) ==
    LET bid == IF side = "yes" THEN b.yes_bid ELSE b.no_bid
        ask == IF side = "yes" THEN b.yes_ask ELSE b.no_ask
        maker_ceiling == IF ask - bid <= 1 THEN bid ELSE ask - 1
        preferred == Min2(bid + 1, maker_ceiling)
    IN IF bid = None THEN None
       ELSE IF ~maker_only
            THEN Max2(min_price_cents, Min2(max_price_cents, IF ask # None THEN ask ELSE bid))
       ELSE IF ask = None THEN Max2(min_price_cents, Min2(max_price_cents, bid))
       ELSE Max2(min_price_cents, Min2(max_price_cents, preferred))

(* paper_trading.py _maker_price_for_side *)
maker_price_for_side(side, b, maker_only, min_price_cents, max_price_cents) ==
    LET bid == IF side = "yes" THEN b.yes_bid ELSE b.no_bid
        ask == IF side = "yes" THEN b.yes_ask ELSE b.no_ask
        maker_ceiling == IF ask <= bid THEN bid
                         ELSE IF ask - bid <= 1 THEN bid ELSE ask - 1
        preferred == Min2(bid + 1, maker_ceiling)
        clamped == Max2(min_price_cents, Min2(max_price_cents, preferred))
    IN IF bid = None /\ ask = None THEN None
       ELSE IF ~maker_only
            THEN Max2(min_price_cents, Min2(max_price_cents, IF ask # None THEN ask ELSE bid))
       ELSE IF bid = None THEN None
       ELSE IF ask = None THEN Max2(min_price_cents, Min2(max_price_cents, bid))
       ELSE IF clamped > maker_ceiling THEN None
       ELSE clamped

MakerPrice(side, b) ==
    maker_price_for_side(side, b, paper_trade_maker_only,
                         paper_trade_min_price_cents, paper_trade_max_price_cents)

(* order_utils.py normalize_order_status; the raw status None is "" here *)
normalize_order_status(raw_status) ==
    IF raw_status = "" THEN "submitted"
    ELSE IF raw_status \in {"resting", "open", "pending", "submitted"} THEN "submitted"
    ELSE IF raw_status \in {"partially_filled", "partially-filled"} THEN "partially_filled"
    ELSE IF raw_status \in {"filled", "executed", "complete", "completed", "matched"} THEN "filled"
    ELSE IF raw_status \in {"canceled", "cancelled", "expired", "voided"} THEN "canceled"
    ELSE IF raw_status \in {"failed", "rejected", "error"} THEN "failed"
    ELSE raw_status

(* order_utils.py extract_order_status: the first candidate whose          *)
(* normalisation is non-empty wins; payload fields absent = ""             *)
extract_order_status(payload) ==
    LET candidates == <<payload.status, payload.order_status, payload.order.status,
                        payload.order.order_status>>
        hits == {i \in 1..4 : normalize_order_status(candidates[i]) # ""}
    IN IF hits = {} THEN "submitted"
       ELSE normalize_order_status(candidates[CHOOSE i \in hits : \A j \in hits : i <= j])

(* ---------------- store (db.py) ---------------- *)

(* db.py has_recent_paper_order *)
has_recent_paper_order(market_ticker, direction, since_ts) ==
    \E i \in 1..Len(orders) :
        /\ orders[i].market_ticker = market_ticker
        /\ orders[i].direction = direction
        /\ orders[i].created_at >= since_ts

EventOfOrder(order_id, order) ==
    [order_id |-> order_id, market_ticker |-> order.market_ticker,
     status |-> order.status, queue_position |-> NoQueue, event_ts |-> order.created_at]

RECURSIVE InitialEvents(_, _, _)
InitialEvents(new_orders, first_id, k) ==
    IF k > Len(new_orders) THEN <<>>
    ELSE <<EventOfOrder(first_id + k - 1, new_orders[k])>>
         \o InitialEvents(new_orders, first_id, k + 1)

(* db.py insert_paper_trade_orders: one row and one initial event per order *)
insert_paper_trade_orders(new_orders) ==
    /\ orders' = orders \o new_orders
    /\ events' = events \o InitialEvents(new_orders, Len(orders) + 1, 1)

(* db.py insert_order_event *)
OrderEvent(order_id, market_ticker, status, queue_position, event_ts) ==
    [order_id |-> order_id, market_ticker |-> market_ticker, status |-> status,
     queue_position |-> queue_position, event_ts |-> event_ts]

(* ---------------- engine: _submit_order ---------------- *)

PlaceResponses == {"ok", "raise"}

(* paper_trading.py _submit_order; response is what client.place_order does *)
submit_order(market_ticker, signal_type, direction, side, count, price_cents, now_utc, response, ext_id, old_id) ==
    LET demo == paper_trading_mode = "kalshi_demo"
    IN [market_ticker |-> market_ticker,
        signal_type |-> signal_type,
        direction |-> direction,
        side |-> side,
        count |-> count,
        limit_price_cents |-> price_cents,
        status |-> IF ~demo THEN "simulated"
                   ELSE IF response = "raise" THEN "failed" ELSE "submitted",
        reason |-> IF ~demo THEN "simulation_only"
                   ELSE IF response = "raise" THEN "exception_text" ELSE "",
        external_order_id |-> IF demo /\ response = "ok" THEN ext_id ELSE None,
        created_at |-> now_utc,
        replaces |-> old_id]

(* execute: no arbitrage opportunity at hand, no arb_results *)
NoArb == [todo |-> <<>>, results |-> <<>>]

ZeroStats ==
    [paper_orders_candidates |-> 0, paper_orders_attempted |-> 0,
     paper_orders_submitted |-> 0, paper_orders_simulated |-> 0,
     paper_orders_failed |-> 0, paper_orders_skipped |-> 0,
     paper_orders_recorded |-> 0]

EmptyTrace ==
    [call |-> "none", visited |-> 0, attempts |-> <<>>, fetched |-> <<>>,
     cancels |-> <<>>, places |-> <<>>, events_before |-> 0, orders_before |-> 0,
     status_before |-> <<>>, queue_raised |-> FALSE, kept |-> <<>>,
     queues |-> <<>>,                               \* the queue position looked up for each kept order
     previous |-> {}]       \* the open orders the reconcile call before this one saw

(* the queue position a reconcile call looked up for an order *)
LookedUp(queues, order_id) ==
    LET hits == {k \in DOMAIN queues : queues[k].order_id = order_id}
    IN IF hits = {} THEN NoQueue ELSE queues[CHOOSE k \in hits : TRUE].queue_position

(* the orders a reconcile call found open, each with the normalized status *)
(* and the queue position it saw                                           *)
SeenOpen(t) ==
    {[order_id |-> t.fetched[k].order_id, status |-> t.fetched[k].status,
      queue_position |-> LookedUp(t.queues, t.fetched[k].order_id)] :
        k \in {j \in DOMAIN t.fetched :
                  t.fetched[j].status \in {"submitted", "partially_filled"}}}

(* what the latest reconcile call saw, kept while other calls run *)
LastReconcile(t) == IF t.call = "reconcile" THEN SeenOpen(t) ELSE t.previous

NoLocals ==
    /\ cands = <<>>
    /\ pending = <<>>
    /\ todo = {}
    /\ latest_events = <<>>
    /\ still_submitted = <<>>
    /\ queue_failed = FALSE
    /\ allow_reprice = FALSE

EngineInit ==
    /\ paper_trading_mode \in {"kalshi_demo", "simulate"}
    /\ now = 0
    /\ phase = "start"
    /\ signals = NotCollected
    /\ book = [t \in Tickers |-> Unset]
    /\ orders = <<>>
    /\ events = <<>>
    /\ pc = "idle"
    /\ stats = ZeroStats
    /\ trace = EmptyTrace
    /\ cancel_log = <<>>
    /\ reconciles = 0
    /\ NoLocals
    /\ arb = NoArb
    /\ current_exposure = 0

(* rows of paper_trade_order_events that a later call can still read: the *)
(* newest row of an order get_submitted_paper_orders can still return, and *)
(* the reprice rows get_recent_reprice_timestamps can still return         *)
CanStillBeRead(k, next_now) ==
    \/ /\ events[k].status = "reprice_submitted"
       /\ events[k].event_ts >= next_now - paper_trade_reprice_window_seconds
    \/ /\ orders[events[k].order_id].status \in {"submitted", "partially_filled"}
       /\ orders[events[k].order_id].external_order_id # None
       /\ orders[events[k].order_id].created_at >= next_now - ReconcileLookback
       /\ \A j \in (k + 1)..Len(events) : events[j].order_id # events[k].order_id

RECURSIVE KeepReadable(_, _)
KeepReadable(k, next_now) ==
    IF k > Len(events) THEN <<>>
    ELSE (IF CanStillBeRead(k, next_now) THEN <<events[k]>> ELSE <<>>)
         \o KeepReadable(k + 1, next_now)

(* a new poll tick: the clock moves on and new market data is collected;  *)
(* event rows that no query can return any more are left out of the state *)
Tick ==
    /\ pc = "idle"
    /\ now < MaxTime
    /\ now' = now + 1
    /\ phase' = "start"
    /\ signals' = NotCollected
    /\ book' = [t \in Tickers |-> Unset]
    /\ stats' = ZeroStats
    /\ trace' = [EmptyTrace EXCEPT !.previous = LastReconcile(trace)]
    /\ events' = KeepReadable(1, now + 1)
    /\ allow_reprice' = FALSE
    /\ pending' = <<>>
    /\ UNCHANGED <<reconciles, cancel_log, paper_trading_mode, orders, pc, cands,
                   todo, latest_events, still_submitted, queue_failed>>
    /\ arb' = NoArb
    /\ UNCHANGED <<trade_settings, current_exposure>>

(* ---------------- sizing (risk.py) ---------------- *)

(* Money is counted in cents; the exposure, which holds an average price, *)
(* in cents / ExposureScale.  Fractions (fill probability,                 *)
(* kelly_fraction_scale, confidence) are counted in quarters (Unit).       *)
ExposureScale == 60

(* the settings of the engine specification: fixed size, nothing to cap *)
FixedSettings ==
    [paper_trade_sizing_mode |-> "fixed", paper_trade_enable_arbitrage |-> TRUE,
     kelly_fraction_scale |-> 1,
     paper_trade_max_position_dollars |-> 5000,
     paper_trade_max_portfolio_exposure_dollars |-> 50000]

RECURSIVE GroupTotal(_, _, _, _, _)
GroupTotal(rows, market_ticker, side, column, k) ==
    IF k > Len(rows) THEN 0
    ELSE (IF /\ rows[k].status \in OpenStatuses
             /\ rows[k].market_ticker = market_ticker
             /\ rows[k].side = side
          THEN (IF column = "count" THEN rows[k].count
                ELSE IF column = "limit_price_cents" THEN rows[k].limit_price_cents
                ELSE 1)
          ELSE 0)
         + GroupTotal(rows, market_ticker, side, column, k + 1)

RECURSIVE SumOver(_, _)
SumOver(S, f) ==
    IF S = {} THEN 0
    ELSE LET x == CHOOSE y \in S : TRUE IN f[x] + SumOver(S \ {x}, f)

(* db.py get_open_positions_summary and execute, lines 218-222: per market *)
(* and side SUM(count) * AVG(limit_price_cents) over the open orders       *)
OpenExposure(rows) ==
    LET Groups == Tickers \X {"yes", "no"}
        exposure == [g \in Groups |->
            LET n == GroupTotal(rows, g[1], g[2], "rows", 1)
            IN IF n = 0 THEN 0
               ELSE GroupTotal(rows, g[1], g[2], "count", 1)
                    * GroupTotal(rows, g[1], g[2], "limit_price_cents", 1)
                    * (ExposureScale \div n)]
    IN SumOver(Groups, exposure)

(* the cost of an order, in the units of the exposure *)
OrderCost(order) == order.count * order.limit_price_cents * ExposureScale

(* risk.py kelly_fraction as the pair edge, win: the fraction is           *)
(* edge / (100 * win), and 0 when win <= 0 or edge <= 0                    *)
kelly_fraction(model_prob, market_price_cents, side) ==
    LET p == Max2(0, Min2(100, model_prob))
        price == Max2(1, Min2(99, market_price_cents))
        win == IF side = "yes" THEN 100 - price ELSE price
        loss == IF side = "yes" THEN price ELSE 100 - price
        edge == IF side = "yes" THEN p * win - (100 - p) * loss
                ELSE (100 - p) * win - p * loss
    IN IF win <= 0 \/ edge <= 0 THEN [edge |-> 0, win |-> 1]
       ELSE [edge |-> edge, win |-> win]

(* faulty variant: the order is not capped by the remaining exposure *)
compute_order_size_uncapped(signal, side, market_price_cents, exposure, bankroll, fill_probability) ==
    LET kelly == kelly_fraction(signal.model_probability, market_price_cents, side)
        fill_prob == Max2(0, Min2(Unit, fill_probability))
        confidence == Max2(0, Min2(Unit, signal.confidence))
        by_target == (bankroll * kelly.edge * fill_prob
                        * trade_settings.kelly_fraction_scale * confidence)
                     \div (100 * kelly.win * Unit * Unit * Unit * market_price_cents)
        by_position == trade_settings.paper_trade_max_position_dollars
                       \div market_price_cents
        contracts == Min2(by_target, by_position)
    IN IF signal.model_probability = NoProbability THEN 0
       ELSE IF trade_settings.paper_trade_sizing_mode = "fixed"
            THEN paper_trade_contract_count
       ELSE IF kelly.edge <= 0 \/ fill_prob <= 0 THEN 0
       ELSE IF contracts > 0 THEN Max2(1, contracts) ELSE 0

(* risk.py compute_order_size: target_dollars / contract_cost rounded      *)
(* down, target_dollars being the least of the Kelly target, the position  *)
(* limit and the remaining exposure                                        *)
compute_order_size(signal, side, market_price_cents, exposure, bankroll, fill_probability) ==
    LET kelly == kelly_fraction(signal.model_probability, market_price_cents, side)
        fill_prob == Max2(0, Min2(Unit, fill_probability))
        confidence == Max2(0, Min2(Unit, signal.confidence))
        by_target == (bankroll * kelly.edge * fill_prob
                        * trade_settings.kelly_fraction_scale * confidence)
                     \div (100 * kelly.win * Unit * Unit * Unit * market_price_cents)
        by_position == trade_settings.paper_trade_max_position_dollars
                       \div market_price_cents
        remaining_exposure ==
            Max2(0, trade_settings.paper_trade_max_portfolio_exposure_dollars
                      * ExposureScale - exposure)
        by_remaining == remaining_exposure \div (market_price_cents * ExposureScale)
        contracts == Min2(Min2(by_target, by_position), by_remaining)
    IN IF signal.model_probability = NoProbability THEN 0
       ELSE IF trade_settings.paper_trade_sizing_mode = "fixed"
            THEN paper_trade_contract_count
       ELSE IF kelly.edge <= 0 \/ fill_prob <= 0 THEN 0
       ELSE IF contracts > 0 THEN Max2(1, contracts) ELSE 0

(* what store.estimate_fill_probability leads to, in quarters *)
FillProbabilities == {2, 4}

(* ---------------- engine: execute ---------------- *)

Candidates(all_signals) == SelectSeq(all_signals, LAMBDA s : is_actionable(s) /\ s.strong)

(* the signals the tick hands to the engine: collected once per tick *)
TickSignals == IF signals = NotCollected THEN SignalLists ELSE {signals}

(* an arbitrage opportunity as pipeline.py serializes it *)
Leg(ticker, side, price_cents) ==
    [ticker |-> ticker, side |-> side, price_cents |-> price_cents]
Opportunity(id, arb_type, max_sets, legs) ==
    [id |-> id, arb_type |-> arb_type, max_sets |-> max_sets, legs |-> legs]

RECURSIVE LegCount(_)
LegCount(opportunities) ==
    IF opportunities = <<>> THEN 0
    ELSE Len(Head(opportunities).legs) + LegCount(Tail(opportunities))

(* execute, lines 190-228: filter and sort the candidates, read the open   *)
(* exposure.  The caller passes the signals of the tick without those of   *)
(* the dropped types; max_rows bounds the table of the model               *)
ExecuteCall(signal_lists, dropped_types, opportunity_lists, max_rows) ==
    /\ pc = "idle"
    /\ phase = "start"
    /\ bot_settings.paper_trading_enabled
    /\ \E all_signals \in signal_lists : \E arb_opportunities \in opportunity_lists :
       LET passed == SelectSeq(all_signals,
                        LAMBDA s : SignalTypeOf(s.market_ticker) \notin dropped_types)
       IN
       /\ Len(orders) + Len(Candidates(passed)) + LegCount(arb_opportunities)
             <= max_rows
       /\ signals' = all_signals
       /\ cands' = Candidates(passed)
       /\ stats' = [ZeroStats EXCEPT !.paper_orders_candidates = Len(Candidates(passed))]
       /\ arb' = [todo |-> IF trade_settings.paper_trade_enable_arbitrage
                           THEN arb_opportunities ELSE <<>>,
                  results |-> <<>>]
    /\ current_exposure' = OpenExposure(orders)
    /\ pc' = "execute"
    /\ pending' = <<>>
    /\ trace' = [EmptyTrace EXCEPT !.call = "execute", !.events_before = Len(events),
                                   !.previous = LastReconcile(trace),
                                    !.orders_before = Len(orders)]
    /\ UNCHANGED <<reconciles, cancel_log, paper_trading_mode, now, phase, book, orders, events,
                   allow_reprice, todo, latest_events, still_submitted, queue_failed,
                   trade_settings>>

(* execute called with the signals of the tick and no arbitrage opportunity *)
ExecuteBegin == ExecuteCall(TickSignals, {}, {<<>>}, MaxOrders)

(* execute, lines 200-201: paper trading is switched off *)
ExecuteDisabled ==
    /\ pc = "idle"
    /\ phase = "start"
    /\ ~bot_settings.paper_trading_enabled
    /\ phase' = "executed"
    /\ stats' = ZeroStats
    /\ pending' = <<>>
    /\ trace' = [EmptyTrace EXCEPT !.call = "execute", !.events_before = Len(events),
                                   !.previous = LastReconcile(trace),
                                    !.orders_before = Len(orders)]
    /\ UNCHANGED <<reconciles, cancel_log, paper_trading_mode, now, signals, book, orders,
                   events, pc, cands, allow_reprice, todo, latest_events, still_submitted,
                   queue_failed, execVars>>

ValidLeg(leg) ==
    leg.ticker # "" /\ leg.side \in {"yes", "no"} /\ leg.price_cents # None

ArbDirection(arb_type) == IF arb_type = "all_no" THEN "arb_all_no" ELSE "arb_all_yes"

(* execute, lines 257-281: the orders of the valid legs, one after another *)
RECURSIVE LegOrders(_, _, _, _, _)
LegOrders(opportunity, count, responses, k, placed) ==
    IF k > Len(opportunity.legs) THEN placed
    ELSE LET leg == opportunity.legs[k]
         IN IF ~ValidLeg(leg)
            THEN LegOrders(opportunity, count, responses, k + 1, placed)
            ELSE LegOrders(opportunity, count, responses, k + 1,
                     Append(placed,
                            submit_order(leg.ticker, "arbitrage",
                                         ArbDirection(opportunity.arb_type), leg.side,
                                         count, leg.price_cents, now, responses[k],
                                         Len(orders) + Len(pending) + Len(placed) + 1, 0)))

RECURSIVE CountStatus(_, _)
CountStatus(placed, statuses) ==
    IF placed = <<>> THEN 0
    ELSE (IF Head(placed).status \in statuses THEN 1 ELSE 0)
         + CountStatus(Tail(placed), statuses)

RECURSIVE SubmittedCost(_)
SubmittedCost(placed) ==
    IF placed = <<>> THEN 0
    ELSE (IF Head(placed).status = "submitted" THEN OrderCost(Head(placed)) ELSE 0)
         + SubmittedCost(Tail(placed))

(* execute, lines 230-287: one iteration of the loop over the opportunities *)
(* faulty variant: an opportunity is taken whatever was attempted before *)
arbitrage_cap_ignored(attempted, legs) == FALSE

(* execute, lines 239-244: the opportunity would go over the cap of the    *)
(* cycle; the first attempt of the call is let through whatever its size   *)
arbitrage_over_cap(attempted, legs) ==
    attempted > 0 /\ attempted + Len(legs) > paper_trade_max_orders_per_cycle

ExecuteArbitrage ==
    /\ pc = "execute"
    /\ arb.todo # <<>>
    /\ LET opportunity == Head(arb.todo)
           legs == opportunity.legs
           count == Min2(opportunity.max_sets, paper_trade_contract_count)
       IN IF legs = <<>> \/ count <= 0
          THEN /\ arb' = [arb EXCEPT !.todo = Tail(@)]
               /\ UNCHANGED <<pending, stats, current_exposure>>
          ELSE IF arbitrage_over_cap(stats.paper_orders_attempted, legs)
          THEN /\ arb' = [arb EXCEPT !.todo = <<>>]
               /\ UNCHANGED <<pending, stats, current_exposure>>
          ELSE \E responses \in [1 .. Len(legs) ->
                      IF paper_trading_mode = "kalshi_demo"
                      THEN PlaceResponses ELSE {"not_called"}] :
               LET placed == LegOrders(opportunity, count, responses, 1, <<>>)
                   submitted == CountStatus(placed, {"submitted"})
                   simulated == CountStatus(placed, {"simulated"})
                   failed == Len(placed) - submitted - simulated
               IN /\ pending' = pending \o placed
                  /\ stats' = [stats EXCEPT
                        !.paper_orders_attempted = @ + Len(placed),
                        !.paper_orders_submitted = @ + submitted,
                        !.paper_orders_simulated = @ + simulated,
                        !.paper_orders_failed = @ + failed]
                  /\ current_exposure' = current_exposure + SubmittedCost(placed)
                  /\ arb' = [todo |-> Tail(arb.todo),
                             results |-> Append(arb.results,
                                [id |-> opportunity.id, legs |-> Len(legs),
                                 submitted |-> submitted, simulated |-> simulated,
                                 failed |-> failed,
                                 executed |-> submitted + simulated > 0])]
    /\ UNCHANGED <<reconciles, cancel_log, paper_trading_mode, now, phase, signals, book,
                   orders, events, pc, cands, allow_reprice, todo, latest_events,
                   still_submitted, queue_failed, trace, trade_settings>>

ExecuteSkip ==
    /\ stats' = [stats EXCEPT !.paper_orders_skipped = @ + 1]
    /\ trace' = [trace EXCEPT !.visited = @ + 1]
    /\ UNCHANGED <<pending, current_exposure>>

(* faulty variant: the loop ends at the first failed placement *)
RestAfterFailure_break(rest) == <<>>

(* execute, lines 346-352: a failed placement does not end the loop *)
RestAfterFailure(rest) == rest

(* execute, lines 289-352: one iteration of the candidate loop *)
ExecuteStep ==
    /\ pc = "execute"
    /\ arb.todo = <<>>
    /\ cands # <<>>
    /\ stats.paper_orders_attempted < paper_trade_max_orders_per_cycle
    /\ LET signal == Head(cands)
           ticker == signal.market_ticker
           cooldown_since == now - paper_trade_cooldown_minutes
           side == IF signal.direction = "buy_yes" THEN "yes" ELSE "no"
       IN IF has_recent_paper_order(ticker, signal.direction, cooldown_since)
          THEN ExecuteSkip /\ cands' = Tail(cands) /\ UNCHANGED book
          ELSE \E snapshot \in (IF book[ticker] = Unset THEN SnapshotChoices ELSE {book[ticker]}) :
               /\ book' = [book EXCEPT ![ticker] = snapshot]
               /\ IF snapshot = NoSnapshot \/ MakerPrice(side, snapshot) = None
                  THEN ExecuteSkip /\ cands' = Tail(cands)
                  ELSE \E fill_probability \in
                         (IF trade_settings.paper_trade_sizing_mode = "fixed"
                          THEN {Unit} ELSE FillProbabilities) :
                       LET count == compute_order_size(signal, side,
                                       MakerPrice(side, snapshot), current_exposure,
                                       trade_settings.paper_trade_max_portfolio_exposure_dollars,
                                       fill_probability)
                       IN
                       IF count <= 0
                       THEN ExecuteSkip /\ cands' = Tail(cands)
                       ELSE
                       \E response \in (IF paper_trading_mode = "kalshi_demo"
                                        THEN PlaceResponses ELSE {"not_called"}) :
                       LET order == submit_order(ticker, SignalTypeOf(ticker),
                                                 signal.direction, side, count,
                                                 MakerPrice(side, snapshot), now, response,
                                                 Len(orders) + Len(pending) + 1, 0)
                       IN /\ pending' = Append(pending, order)
                          /\ current_exposure' = current_exposure
                                + (IF order.status = "submitted" THEN OrderCost(order) ELSE 0)
                          /\ cands' = IF order.status = "failed"
                                      THEN RestAfterFailure(Tail(cands)) ELSE Tail(cands)
                          /\ stats' = [stats EXCEPT
                                !.paper_orders_attempted = @ + 1,
                                !.paper_orders_submitted = @ + (IF order.status = "submitted" THEN 1 ELSE 0),
                                !.paper_orders_simulated = @ + (IF order.status = "simulated" THEN 1 ELSE 0),
                                !.paper_orders_failed = @ + (IF order.status \notin {"submitted", "simulated"} THEN 1 ELSE 0)]
                          /\ trace' = [trace EXCEPT
                                !.visited = @ + 1,
                                !.attempts = Append(@, [candidate |-> trace.visited + 1,
                                                        called |-> response # "not_called",
                                                        response |-> response])]
    /\ UNCHANGED <<reconciles, cancel_log, paper_trading_mode, now, phase, signals, orders, events, pc,
                   allow_reprice, todo, latest_events, still_submitted, queue_failed,
                   trade_settings, arb>>

(* ---- execute with Kelly sizing and arbitrage opportunities ---- *)

MaxExecuteOrders == 4

(* settings with small limits: $1.00 a position, $1.64 for the portfolio;  *)
(* kelly_fraction_scale 1.0 or 0.25                                        *)
KellySettings ==
    [paper_trade_sizing_mode |-> "kelly", paper_trade_enable_arbitrage |-> TRUE,
     kelly_fraction_scale |-> Unit,
     paper_trade_max_position_dollars |-> 100,
     paper_trade_max_portfolio_exposure_dollars |-> 164]
TradeSettings ==
    { KellySettings,
      [KellySettings EXCEPT !.kelly_fraction_scale = 1],
      [KellySettings EXCEPT !.paper_trade_sizing_mode = "fixed",
                            !.paper_trade_enable_arbitrage = FALSE] }

SizedSignalLists ==
    { <<>>,
      <<SizedSig("KXHIGHNY-A", "buy_yes", TRUE, 90, Unit),
        SizedSig("KXBTC15M-A", "buy_yes", TRUE, 90, Unit)>>,
      <<SizedSig("KXHIGHNY-A", "buy_no", TRUE, 10, Unit)>>,
      <<SizedSig("KXBTC15M-A", "buy_yes", TRUE, 30, Unit)>>,
      <<SizedSig("KXHIGHNY-A", "buy_yes", TRUE, NoProbability, Unit),
        SizedSig("KXBTC15M-A", "buy_no", TRUE, 10, 2)>> }

ArbOpportunityLists ==
    { <<>>,
      <<Opportunity(1, "all_yes", 1,
                    <<Leg("KXHIGHNY-A", "yes", 42), Leg("KXBTC15M-A", "yes", 42)>>)>>,
      <<Opportunity(2, "all_no", 1,
                    <<Leg("KXHIGHNY-A", "no", 59), Leg("", "no", 59)>>)>>,
      <<Opportunity(3, "all_yes", 0, <<Leg("KXHIGHNY-A", "yes", 42)>>),
        Opportunity(4, "all_no", 2, <<Leg("KXBTC15M-A", "no", 59)>>)>>,
      <<Opportunity(5, "all_yes", 1,
                    <<Leg("KXHIGHNY-A", "yes", 42), Leg("KXBTC15M-A", "yes", 42),
                      Leg("KXHIGHNY-A", "no", 59)>>)>>,
      <<Opportunity(6, "all_yes", 1,
                    <<Leg("KXHIGHNY-A", "yes", 42), Leg("KXBTC15M-A", "yes", 42)>>),
        Opportunity(7, "all_no", 1, <<Leg("KXBTC15M-A", "no", 59)>>)>> }

(* execute called with sized signals and arbitrage opportunities *)
ExecuteBeginSized ==
    ExecuteCall(IF signals = NotCollected THEN SizedSignalLists ELSE {signals}, {},
                ArbOpportunityLists, MaxExecuteOrders)

(* execute, lines 289-291 and 354-356: leave the loop, record the orders *)
ExecuteEnd ==
    /\ pc = "execute"
    /\ arb.todo = <<>>
    /\ \/ cands = <<>>
       \/ stats.paper_orders_attempted >= paper_trade_max_orders_per_cycle
    /\ insert_paper_trade_orders(pending)
    /\ stats' = [stats EXCEPT !.paper_orders_recorded = Len(pending)]
    /\ pc' = "idle"
    /\ phase' = "executed"
    /\ cands' = <<>>
    /\ current_exposure' = 0
    /\ UNCHANGED <<reconciles, cancel_log, paper_trading_mode, now, signals, book, pending, allow_reprice, todo,
                   latest_events, still_submitted, queue_failed, trace, trade_settings, arb>>

(* ---------------- engine: reconcile_open_orders ---------------- *)

Payload(status, order_status, nested_status) ==
    [status |-> status, order_status |-> order_status,
     order |-> [status |-> nested_status, order_status |-> ""]]

(* what client.get_order may do: return a payload or raise *)
OrderPayloads ==
    { Payload("resting", "", ""), Payload("partially-filled", "", ""),
      Payload("executed", "", ""), Payload("cancelled", "", ""),
      Payload("rejected", "", ""), Payload("amended", "", ""),
      Payload("", "", "filled") }
GetOrderResults ==
    {[raised |-> FALSE, payload |-> p] : p \in OrderPayloads}
    \cup {[raised |-> TRUE, payload |-> Payload("", "", "")]}

(* the status the exchange reports in a payload, wherever it is placed *)
ReportedStatus(payload) ==
    IF payload.status # "" THEN payload.status
    ELSE IF payload.order_status # "" THEN payload.order_status
    ELSE IF payload.order.status # "" THEN payload.order.status
    ELSE payload.order.order_status

QueuePositions == {NoQueue, 1, 2}

NoEvent == [status |-> "", queue_position |-> NoQueue]

(* db.py get_latest_order_events: newest event of the order *)
LatestEvent(order_id) ==
    LET mine == {k \in 1..Len(events) : events[k].order_id = order_id}
    IN IF mine = {} THEN NoEvent
       ELSE LET last == CHOOSE k \in mine : \A j \in mine : j <= k
            IN [status |-> events[last].status,
                queue_position |-> events[last].queue_position]

(* faulty variant: the query without its status filter *)
get_submitted_paper_orders_any_status(since_ts) ==
    {i \in 1..Len(orders) :
        /\ orders[i].external_order_id # None
        /\ orders[i].created_at >= since_ts}

(* db.py get_submitted_paper_orders *)
get_submitted_paper_orders(since_ts) ==
    {i \in 1..Len(orders) :
        /\ orders[i].status \in {"submitted", "partially_filled"}
        /\ orders[i].external_order_id # None
        /\ orders[i].created_at >= since_ts}

(* db.py get_recent_reprice_timestamps (the limit exceeds the cap, so the  *)
(* truncated list is as long as the cap whenever the full one is)          *)
get_recent_reprice_timestamps(market_ticker, since_ts) ==
    {k \in 1..Len(events) :
        /\ events[k].market_ticker = market_ticker
        /\ events[k].status = "reprice_submitted"
        /\ events[k].event_ts >= since_ts}

(* reconcile_open_orders, lines 395-402: best signal per ticker *)
signal_by_ticker(ticker) ==
    LET hits == {k \in 1..Len(signals) : signals[k].market_ticker = ticker}
    IN IF hits = {} THEN "no_signal"
       ELSE signals[CHOOSE k \in hits : \A j \in hits : k <= j].direction

ReconcileLeave ==
    /\ pc' = "idle"
    /\ phase' = "reconciled"
    /\ todo' = {}
    /\ latest_events' = <<>>
    /\ still_submitted' = <<>>
    /\ queue_failed' = FALSE
    /\ pending' = <<>>

(* reconcile_open_orders, lines 366-404, called with one of the signal     *)
(* lists and one of the values of allow_reprice                            *)
ReconcileCall(signal_lists, allow_reprice_values) ==
    /\ pc = "idle"
    /\ phase \in {"start", "executed"}
    /\ reconciles < MaxReconciles
    /\ reconciles' = reconciles + 1
    /\ LET active == get_submitted_paper_orders(now - ReconcileLookback)
       IN /\ trace' = [EmptyTrace EXCEPT !.call = "reconcile",
                                         !.previous = LastReconcile(trace),
                                         !.events_before = Len(events),
                                         !.orders_before = Len(orders),
                                         !.status_before = [i \in 1..Len(orders) |->
                                                                orders[i].status]]
          /\ IF \/ paper_trading_mode # "kalshi_demo"
                \/ ~paper_trade_enable_queue_management
                \/ active = {}
             THEN ReconcileLeave /\ allow_reprice' = FALSE /\ UNCHANGED signals
             ELSE /\ pc' = "status"
                  /\ signals' \in signal_lists
                  /\ todo' = active
                  /\ latest_events' = [i \in active |-> LatestEvent(i)]
                  /\ still_submitted' = <<>>
                  /\ pending' = <<>>
                  /\ queue_failed' = FALSE
                  /\ allow_reprice' \in allow_reprice_values
                  /\ phase' = phase
    /\ UNCHANGED <<cancel_log, paper_trading_mode, now, book, orders, events, cands, stats>>
    /\ UNCHANGED execVars

(* reconcile_open_orders called with the signals of the tick *)
ReconcileBegin == ReconcileCall(TickSignals, BOOLEAN)

(* reconcile_open_orders, line 441: is_open_status *)
IsOpenStatus(normalized_status) ==
    normalized_status \in {"submitted", "partially_filled"}

(* reconcile_open_orders, lines 406-490: one iteration of the status loop; *)
(* rows come newest first, rows of equal age in any order                  *)
ReconcileStatus ==
    /\ pc = "status"
    /\ \E order_id \in todo :
       /\ \A j \in todo : orders[j].created_at <= orders[order_id].created_at
       /\ \E result \in GetOrderResults :
          LET ticker == orders[order_id].market_ticker
              last_status == latest_events[order_id].status
              normalized_status == extract_order_status(result.payload)
              is_open_status == IsOpenStatus(normalized_status)
              status_event == OrderEvent(order_id, ticker, normalized_status, NoQueue, now)
          IN /\ todo' = todo \ {order_id}
             /\ IF result.raised
                THEN /\ events' = Append(events,
                            OrderEvent(order_id, ticker, "status_check_failed", NoQueue, now))
                     /\ UNCHANGED <<orders, still_submitted>>
                     /\ trace' = [trace EXCEPT !.fetched = Append(@,
                            [order_id |-> order_id, raised |-> TRUE, reported |-> "",
                             status |-> ""])]
                ELSE /\ orders' = IF ~is_open_status \/ normalized_status = "partially_filled"
                                  THEN [orders EXCEPT ![order_id].status = normalized_status]
                                  ELSE orders
                     /\ events' = IF last_status # normalized_status
                                  THEN Append(events, status_event) ELSE events
                     /\ still_submitted' = IF is_open_status
                                           THEN Append(still_submitted, order_id)
                                           ELSE still_submitted
                     /\ trace' = [trace EXCEPT !.fetched = Append(@,
                            [order_id |-> order_id, raised |-> FALSE,
                             reported |-> normalize_order_status(ReportedStatus(result.payload)),
                             status |-> normalized_status])]
    /\ UNCHANGED <<reconciles, cancel_log, paper_trading_mode, now, phase, signals, book, pc, cands, pending, stats,
                   allow_reprice, latest_events, queue_failed>>
    /\ UNCHANGED execVars

(* reconcile_open_orders, lines 492-505: fetch the queue positions *)
ReconcileQueueFetch ==
    /\ pc = "status"
    /\ todo = {}
    /\ IF still_submitted = <<>>
       THEN ReconcileLeave /\ UNCHANGED trace
       ELSE /\ pc' = "queue"
            /\ queue_failed' \in BOOLEAN
            /\ trace' = [trace EXCEPT !.queue_raised = queue_failed',
                                      !.kept = still_submitted]
            /\ UNCHANGED <<phase, todo, latest_events, still_submitted, pending>>
    /\ UNCHANGED <<reconciles, cancel_log, paper_trading_mode, now, signals, book, orders, events,
                   cands, stats, allow_reprice>>
    /\ UNCHANGED execVars

QueueAlerted(queue_position) ==
    /\ queue_position # NoQueue
    /\ queue_position > paper_trade_queue_max_depth

(* faulty variant: the age of the order is not looked at *)
IsStale_ignored(created_at, now_utc) == TRUE

(* reconcile_open_orders, lines 507 and 542: the order is old enough *)
IsStale(created_at, now_utc) ==
    ~(created_at > now_utc - paper_trade_queue_stale_minutes)

(* reconcile_open_orders, line 550: the per-window cap is used up *)
WindowBlocked(recent_reprices) ==
    Cardinality(recent_reprices) >= paper_trade_reprice_max_per_window

(* reconcile_open_orders, lines 556-564: the last reprice is too recent *)
CooldownBlocked(recent_reprices, now_utc) ==
    /\ recent_reprices # {}
    /\ LET most_recent == CHOOSE ts \in {events[k].event_ts : k \in recent_reprices} :
                              \A k \in recent_reprices : events[k].event_ts <= ts
       IN now_utc - most_recent < paper_trade_reprice_cooldown_seconds

ExpectedDirection(side) == IF side = "yes" THEN "buy_yes" ELSE "buy_no"

(* reconcile_open_orders, lines 565-568 *)
SignalMismatch(ticker, side) ==
    signal_by_ticker(ticker) # ExpectedDirection(side)

(* reconcile_open_orders, lines 535-568: every guard in front of the cancel *)
RepriceBlocked(order, queue_position) ==
    \/ ~QueueAlerted(queue_position)
    \/ ~allow_reprice
    \/ ~IsStale(order.created_at, now)
    \/ WindowBlocked(get_recent_reprice_timestamps(order.market_ticker,
                        now - paper_trade_reprice_window_seconds))
    \/ CooldownBlocked(get_recent_reprice_timestamps(order.market_ticker,
                        now - paper_trade_reprice_window_seconds), now)
    \/ SignalMismatch(order.market_ticker, order.side)

(* reconcile_open_orders, lines 520-533: the resting event *)
RestingEvents(order_id, queue_position) ==
    LET last_event == latest_events[order_id]
    IN IF /\ queue_position # NoQueue
          /\ (last_event.status # "resting" \/ last_event.queue_position # queue_position)
       THEN <<OrderEvent(order_id, orders[order_id].market_ticker, "resting",
                         queue_position, now)>>
       ELSE <<>>

(* reconcile_open_orders, lines 572-611: the try around cancel_order; its *)
(* except branch records the failure and ends the order's turn (continue), *)
(* so that lines 613-660 run only when cancel_order returned               *)
reprice_after_failed_cancel(cancel_ok) == TRUE

reprice_after_cancel(cancel_ok) == cancel_ok

(* reconcile_open_orders, lines 508-660: one iteration of the queue loop *)
ReconcileQueue ==
    /\ pc = "queue"
    /\ still_submitted # <<>>
    /\ still_submitted' = Tail(still_submitted)
    /\ LET order_id == Head(still_submitted)
           order == orders[order_id]
           ticker == order.market_ticker
           side == order.side
       IN \E queue_position \in (IF queue_failed THEN {NoQueue} ELSE QueuePositions) :
          LET events1 == events \o RestingEvents(order_id, queue_position)
              looked_up == [trace EXCEPT !.queues = Append(@,
                               [order_id |-> order_id, queue_position |-> queue_position])]
              seen == [order_id |-> order_id, market_ticker |-> ticker,
                       queue_position |-> queue_position, event_ts |-> now,
                       events_before |-> Len(events), returned |-> TRUE]
          IN IF RepriceBlocked(order, queue_position)
             THEN /\ events' = events1
                  /\ trace' = looked_up
                  /\ UNCHANGED <<orders, pending, book, cancel_log>>
             ELSE \E snapshot \in (IF book[ticker] = Unset THEN SnapshotChoices
                                   ELSE {book[ticker]}) :
                  /\ book' = [book EXCEPT ![ticker] = snapshot]
                  /\ IF snapshot = NoSnapshot
                     THEN /\ events' = events1
                          /\ trace' = looked_up
                          /\ UNCHANGED <<orders, pending, cancel_log>>
                     ELSE \E cancel_ok \in BOOLEAN :
                          LET events2 == Append(events1, OrderEvent(order_id, ticker,
                                   IF cancel_ok THEN "canceled" ELSE "queue_refresh_failed",
                                   queue_position, now))
                              new_price == MakerPrice(side, snapshot)
                              called == [seen EXCEPT !.returned = cancel_ok]
                          IN /\ orders' = IF cancel_ok
                                          THEN [orders EXCEPT
                                                  ![order_id].status = "canceled",
                                                  ![order_id].reason = "queue_reprice_cancel"]
                                          ELSE orders
                             /\ cancel_log' = IF cancel_ok
                                              THEN Append(cancel_log,
                                                     [market_ticker |-> ticker, event_ts |-> now])
                                              ELSE cancel_log
                             /\ IF \/ ~reprice_after_cancel(cancel_ok)
                                   \/ new_price = None
                                   \/ new_price = order.limit_price_cents
                                THEN /\ events' = events2
                                     /\ trace' = [looked_up EXCEPT !.cancels = Append(@, called)]
                                     /\ UNCHANGED pending
                                ELSE \E response \in PlaceResponses :
                                     LET refreshed == submit_order(ticker,
                                             order.signal_type,
                                             ExpectedDirection(side), side,
                                             order.count, new_price,
                                             now, response,
                                             Len(orders) + Len(pending) + 1, order_id)
                                     IN /\ pending' = Append(pending, refreshed)
                                        /\ trace' = [looked_up EXCEPT
                                             !.cancels = Append(@, called),
                                             !.places = Append(@,
                                                 [old_order_id |-> order_id,
                                                  response |-> response])]
                                        /\ events' =
                                             IF refreshed.status = "submitted"
                                             THEN Append(events2, OrderEvent(order_id,
                                                    ticker, "reprice_submitted",
                                                    queue_position, now))
                                             ELSE events2
    /\ UNCHANGED <<paper_trading_mode, now, phase, signals, pc, cands, stats, allow_reprice,
                   todo, latest_events, queue_failed, reconciles>>
    /\ UNCHANGED execVars

(* reconcile_open_orders, lines 662-666: record the replacement orders *)
ReconcileEnd ==
    /\ pc = "queue"
    /\ still_submitted = <<>>
    /\ insert_paper_trade_orders(pending)
    /\ ReconcileLeave
    /\ UNCHANGED <<paper_trading_mode, now, signals, book, cands, stats, trace, cancel_log,
                   reconciles, allow_reprice>>
    /\ UNCHANGED execVars

(* ---------------- engine: a store operation raises ---------------- *)

(* execute, line 295: self.store.has_recent_paper_order raises for the     *)
(* next candidate.  Nothing in execute catches it: the call ends there,    *)
(* before line 354, and its local list of orders (pending) is dropped      *)
ExecuteRaises ==
    /\ pc = "execute"
    /\ arb.todo = <<>>
    /\ cands # <<>>
    /\ stats.paper_orders_attempted < paper_trade_max_orders_per_cycle
    /\ pc' = "idle"
    /\ phase' = "raised"
    /\ cands' = <<>>
    /\ current_exposure' = 0
    /\ UNCHANGED <<reconciles, cancel_log, paper_trading_mode, now, signals, book, orders,
                   events, pending, stats, allow_reprice, todo, latest_events,
                   still_submitted, queue_failed, trace, trade_settings, arb>>

(* reconcile_open_orders, lines 522-530: self.store.insert_order_event     *)
(* raises when the resting event of the next order is written.  The call   *)
(* ends there, before line 662, and repriced_orders (pending) is dropped   *)
ReconcileRaises ==
    /\ pc = "queue"
    /\ still_submitted # <<>>
    /\ ~queue_failed
    /\ \E queue_position \in QueuePositions :
          RestingEvents(Head(still_submitted), queue_position) # <<>>
    /\ pc' = "idle"
    /\ phase' = "raised"
    /\ todo' = {}
    /\ latest_events' = <<>>
    /\ still_submitted' = <<>>
    /\ queue_failed' = FALSE
    /\ UNCHANGED <<paper_trading_mode, now, signals, book, orders, events, pending, cands,
                   stats, trace, cancel_log, reconciles, allow_reprice>>
    /\ UNCHANGED execVars


(* ======================= mode state machine (pipeline.py) ============== *)

MaxCommands == 4

Modes == {"custom", "demo_safe", "live_safe", "live_auto"}
LiveModes == {"live_safe", "live_auto"}
NoPending == "none"

(* config.py BOT_MODE_DEFAULTS: paper_trading_enabled of each bot mode;    *)
(* custom has no entry and falls back to False (config.py line 632)        *)
ModeDefaultEnabled(bot_mode) == bot_mode \in {"demo_safe", "live_auto"}

(* values of the environment variable PAPER_TRADING_ENABLED *)
EnvEnabled == {"unset", "true", "off"}

(* config.py _as_bool *)
as_bool(value, default) ==
    IF value = "unset" THEN default ELSE value \in {"1", "true", "yes", "on"}

(* config.py Settings.from_env, lines 436 and 630-633 *)
SettingsFromEnv(bot_mode, env_enabled) ==
    [bot_mode |-> bot_mode,
     paper_trading_enabled |-> as_bool(env_enabled, ModeDefaultEnabled(bot_mode))]

(* pipeline.py DataPipeline.__init__, lines 39-42 *)
PipelineInit(settings) ==
    /\ bot_settings = settings
    /\ paused = FALSE
    /\ runtime_mode = settings.bot_mode
    /\ runtime_auto_trading_enabled = settings.paper_trading_enabled
    /\ pending_live_mode = NoPending
    /\ commands = [count |-> 0, last |-> "none", last_request |-> "none"]

(* texts that may follow /mode *)
RequestedModes == {"custom", "demo_safe", "live_safe", " LIVE_AUTO", "turbo"}

(* str.strip().lower() on the request texts *)
strip_lower(text) == IF text = " LIVE_AUTO" THEN "live_auto" ELSE text

Handled(kind, request) ==
    commands' = [count |-> commands.count + 1, last |-> kind,
                 last_request |-> IF request = "" THEN commands.last_request ELSE request]

request_live_applies_at_once(mode) ==
    /\ pending_live_mode' = NoPending
    /\ runtime_mode' = mode
    /\ runtime_auto_trading_enabled' = (mode = "live_auto")

(* request_mode_change, lines 172-177: a live mode is only remembered *)
request_live(mode) ==
    /\ pending_live_mode' = mode
    /\ UNCHANGED <<runtime_mode, runtime_auto_trading_enabled>>

(* pipeline.py request_mode_change *)
request_mode_change(requested_mode) ==
    LET mode == strip_lower(requested_mode)
    IN IF mode \notin Modes
       THEN /\ Handled("mode", "")
            /\ UNCHANGED <<pending_live_mode, runtime_mode, runtime_auto_trading_enabled>>
       ELSE /\ Handled("mode", mode)
            /\ IF mode \in LiveModes
               THEN request_live(mode)
               ELSE /\ pending_live_mode' = NoPending
                    /\ runtime_mode' = mode
                    /\ runtime_auto_trading_enabled' =
                          (IF mode = "custom" THEN bot_settings.paper_trading_enabled
                           ELSE TRUE)

RequestModeChange ==
    /\ commands.count < MaxCommands
    /\ \E requested_mode \in RequestedModes : request_mode_change(requested_mode)
    /\ UNCHANGED <<bot_settings, paused>>

(* pipeline.py confirm_live_mode *)
ConfirmLiveMode ==
    /\ commands.count < MaxCommands
    /\ Handled("confirm", "")
    /\ IF pending_live_mode = NoPending
       THEN UNCHANGED <<pending_live_mode, runtime_mode, runtime_auto_trading_enabled>>
       ELSE /\ pending_live_mode' = NoPending
            /\ runtime_mode' = pending_live_mode
            /\ runtime_auto_trading_enabled' = (pending_live_mode = "live_auto")
    /\ UNCHANGED <<bot_settings, paused>>

(* pipeline.py set_paused, called for /pause and /resume *)
SetPaused ==
    /\ commands.count < MaxCommands
    /\ \E value \in BOOLEAN :
          /\ paused' = value
          /\ Handled(IF value THEN "pause" ELSE "resume", "")
    /\ UNCHANGED <<bot_settings, runtime_mode, runtime_auto_trading_enabled,
                   pending_live_mode>>

(* ======================= maker pricing (paper_trading.py) ============== *)

MaxPriceCents == 99

(* a quote of the book: a price in cents, or None when that quote is absent *)
Quotes == {None} \cup (1 .. MaxPriceCents)

(* the price limits passed as min_price_cents, max_price_cents *)
PriceLimits == {1, paper_trade_min_price_cents, paper_trade_max_price_cents}

NotReturned == -1
NoMakerCall == [side |-> "none"]

(* the book argument: the quotes of the chosen side, nothing on the other side *)
BookOf(side, bid, ask) ==
    IF side = "yes"
    THEN [yes_bid |-> bid, yes_ask |-> ask, no_bid |-> None, no_ask |-> None]
    ELSE [yes_bid |-> None, yes_ask |-> None, no_bid |-> bid, no_ask |-> ask]

(* the arguments of a call of _maker_price_for_side, nothing returned yet *)
MakerCall(side, bid, ask, maker_only, min_price_cents, max_price_cents) ==
    [side |-> side, bid |-> bid, ask |-> ask, maker_only |-> maker_only,
     min_price_cents |-> min_price_cents, max_price_cents |-> max_price_cents,
     price |-> NotReturned]

(* paper_trading.py _maker_price_for_side, called and returning *)
MakerPriceCall ==
    /\ maker.side # "none"
    /\ maker.price = NotReturned
    /\ maker' = [maker EXCEPT !.price =
                    maker_price_for_side(maker.side,
                                         BookOf(maker.side, maker.bid, maker.ask),
                                         maker.maker_only, maker.min_price_cents,
                                         maker.max_price_cents)]

(* ======================= WSManager (ws/manager.py) ====================== *)

MaxSubscriptions == 3
MaxSockets == 3
MaxAttempts == 4
MaxMessages == 1

(* the arguments reconnect_delay and reconnect_max_delay, in half seconds *)
ReconnectDelayArgs == {0, 3}
ReconnectMaxDelayArgs == {1, 16}

NoSocket == 0

(* WSManager.__init__ *)
WSManagerInit(reconnect_delay, reconnect_max_delay) ==
    LET delay == Max2(1, reconnect_delay)
    IN ws = [reconnect_delay |-> delay,
             reconnect_max_delay |-> Max2(delay, reconnect_max_delay),
             socket |-> NoSocket, running |-> FALSE, reconnect_wait |-> delay,
             subscriptions |-> <<>>, pc |-> "stopped", replayed |-> 0,
             closed |-> FALSE, heartbeat |-> "none", exc |-> "none"]

NoWire == [sockets |-> 0, sent |-> <<>>, dispatched |-> 0, subscribed |-> 0,
           offline |-> {}, attempts |-> 0, waits |-> 0, wait_seconds |-> 0,
           close_called |-> FALSE, cancel_requested |-> FALSE, connects |-> 0,
           connects_after_close |-> 0, raised |-> 0, hooked |-> 0]

(* no WSManager is running *)
WSIdle == WSManagerInit(2, 120) /\ wire = NoWire

(* the socket is open: connect() returned it and it has not failed *)
SocketOpen == ws.socket # NoSocket /\ ws.pc \in {"replay", "listen"}

(* faulty variant: a connected manager sends a subscription without keeping it *)
buffered_only_offline(subscriptions, payload) ==
    IF ws.socket = NoSocket THEN Append(subscriptions, payload) ELSE subscriptions

(* subscribe, line 71 *)
buffered(subscriptions, payload) == Append(subscriptions, payload)

(* subscribe: the payload of the n-th call is n; with a closed socket not  *)
(* yet discarded by run() the send raises after the payload was buffered.  *)
(* connect() runs from the socket's arrival to its first send without an   *)
(* await, so a subscribe of another task meets the replay only once a send *)
(* of the replay is awaited                                                *)
WSSubscribe ==
    /\ wire.subscribed < MaxSubscriptions
    /\ ws.pc = "replay" => ws.replayed >= 1
    /\ LET payload == wire.subscribed + 1
       IN /\ ws' = [ws EXCEPT !.subscriptions = buffered(@, payload)]
          /\ wire' = [wire EXCEPT
                 !.subscribed = payload,
                 !.offline = IF SocketOpen THEN @ ELSE @ \cup {payload},
                 !.sent = IF SocketOpen THEN Append(@, payload) ELSE @]

(* run, lines 139-140 *)
WSRun ==
    /\ ws.pc = "stopped"
    /\ ~ws.running
    /\ wire.sockets = 0
    /\ ws' = [ws EXCEPT !.running = TRUE, !.pc = "connect"]
    /\ UNCHANGED wire

(* faulty variant: a successful connect keeps the wait reached so far *)
connected_reconnect_wait_kept == ws.reconnect_wait

(* connect, line 59 *)
connected_reconnect_wait == ws.reconnect_delay

(* connect, lines 48-59: websockets.connect returned a socket *)
WSConnected ==
    /\ ws.pc = "connect"
    /\ wire.sockets < MaxSockets
    /\ ws' = [ws EXCEPT !.socket = wire.sockets + 1,
                        !.reconnect_wait = connected_reconnect_wait,
                        !.pc = "replay", !.replayed = 0]
    /\ wire' = [wire EXCEPT !.sockets = @ + 1, !.sent = <<>>, !.dispatched = 0,
                            !.attempts = 0]

(* connect, lines 48-57, raising; run, lines 152-154 *)
WSConnectFailed ==
    /\ ws.pc = "connect"
    /\ ws' = [ws EXCEPT !.pc = "cleanup"]
    /\ UNCHANGED wire

(* connect, lines 60-61: one turn of the replay loop; the loop reads the   *)
(* list as it is now, and other tasks run while a send is awaited          *)
WSReplay ==
    /\ ws.pc = "replay"
    /\ IF ws.replayed < Len(ws.subscriptions)
       THEN \/ /\ ws' = [ws EXCEPT !.replayed = @ + 1]
               /\ wire' = [wire EXCEPT
                      !.sent = Append(@, ws.subscriptions[ws.replayed + 1])]
            \/ /\ ws' = [ws EXCEPT !.pc = "cleanup"]
               /\ UNCHANGED wire
       ELSE /\ ws' = [ws EXCEPT !.pc = "listen"]
            /\ UNCHANGED wire

(* _listen_loop, lines 101-114: an inbound message reaches on_message *)
WSDispatch ==
    /\ ws.pc = "listen"
    /\ wire.dispatched < MaxMessages
    /\ wire' = [wire EXCEPT !.dispatched = @ + 1]
    /\ UNCHANGED ws

(* the connection ends.  When the heartbeat closed the socket after a      *)
(* failed ping (lines 121-130) its task is over and run() goes on to its   *)
(* cleanup; when the listen loop returns or raises while the heartbeat     *)
(* task is pending, awaiting the cancelled task (lines 147-149) raises     *)
(* asyncio.CancelledError and run() ends (see MgrUnwind)                   *)
WSConnectionLost ==
    /\ ws.pc = "listen"
    /\ \/ ws' = [ws EXCEPT !.pc = "cleanup"]
       \/ ws' = [ws EXCEPT !.pc = "cancelled", !.socket = NoSocket]
    /\ UNCHANGED wire

(* run, lines 155-160 *)
WSCleanup ==
    /\ ws.pc = "cleanup"
    /\ ws' = [ws EXCEPT !.socket = NoSocket,
                        !.pc = IF ws.running THEN "sleep" ELSE "stopped"]
    /\ UNCHANGED wire

(* _reconnect, then the loop test of run (line 140) *)
WSReconnect ==
    /\ ws.pc = "sleep"
    /\ wire.waits < MaxAttempts
    /\ LET wait_seconds == Min2(ws.reconnect_wait, ws.reconnect_max_delay)
       IN /\ wire' = [wire EXCEPT !.attempts = @ + 1, !.waits = @ + 1,
                                  !.wait_seconds = wait_seconds]
          /\ ws' = [ws EXCEPT
                 !.reconnect_wait = Min2(ws.reconnect_wait * 2, ws.reconnect_max_delay),
                 !.pc = IF ws.running THEN "connect" ELSE "stopped"]

(* close *)
WSClose ==
    /\ ws.running
    /\ ws.pc \in {"listen", "sleep"}
    /\ ws' = [ws EXCEPT !.running = FALSE,
                        !.pc = IF ws.pc = "listen" THEN "cleanup" ELSE @]
    /\ UNCHANGED wire

(* ----------- run(), statement by statement, with its heartbeat ---------- *)
(* ws.pc is the statement run() is at; ws.exc is the exception that is     *)
(* propagating ("error": an Exception, "hook": an Exception raised by      *)
(* on_error, "cancel": asyncio.CancelledError); ws.closed says that the    *)
(* socket object in _ws is closed; ws.heartbeat is the position of the     *)
(* heartbeat task.  wire counts the connect attempts, the exceptions       *)
(* raised and the calls of on_error.                                       *)

MaxConnects == 3

EndedPcs == {"returned", "raised", "cancelled"}

(* run, line 139 *)
MgrRun ==
    /\ ws.pc = "stopped"
    /\ ~ws.running
    /\ wire.connects = 0
    /\ ws' = [ws EXCEPT !.running = TRUE, !.pc = "loop"]
    /\ UNCHANGED wire

(* run, line 140, and the call of connect of line 142 *)
MgrLoop ==
    /\ ws.pc = "loop"
    /\ IF ws.running
       THEN /\ wire.connects < MaxConnects
            /\ ws' = [ws EXCEPT !.pc = "connect", !.heartbeat = "none",
                                !.exc = "none"]
            /\ wire' = [wire EXCEPT
                   !.connects = @ + 1,
                   !.connects_after_close =
                       IF wire.close_called THEN @ + 1 ELSE @]
       ELSE /\ ws' = [ws EXCEPT !.pc = "returned"]
            /\ UNCHANGED wire

(* connect, lines 51-59: websockets.connect returned a socket *)
MgrConnected ==
    /\ ws.pc = "connect"
    /\ ws' = [ws EXCEPT !.socket = wire.connects, !.closed = FALSE,
                        !.reconnect_wait = connected_reconnect_wait,
                        !.pc = "replay"]
    /\ UNCHANGED wire

(* connect, lines 48-57: auth_headers_provider or websockets.connect raised *)
MgrConnectRaised ==
    /\ ws.pc = "connect"
    /\ ws' = [ws EXCEPT !.pc = "error", !.exc = "error"]
    /\ wire' = [wire EXCEPT !.raised = @ + 1]

(* connect, lines 60-61, then line 143: the replay is over, the heartbeat  *)
(* task is created; or a send of the replay raised                         *)
MgrReplay ==
    /\ ws.pc = "replay"
    /\ \/ /\ ws' = [ws EXCEPT !.pc = "listen", !.heartbeat = "created"]
          /\ UNCHANGED wire
       \/ /\ ws' = [ws EXCEPT !.pc = "error", !.exc = "error"]
          /\ wire' = [wire EXCEPT !.raised = @ + 1]

(* _heartbeat, line 117 as the task starts *)
MgrHeartbeatStart ==
    /\ ws.heartbeat = "created"
    /\ ws.pc = "listen"
    /\ ws' = [ws EXCEPT !.heartbeat = IF ws.running THEN "sleep" ELSE "returned"]
    /\ UNCHANGED wire

(* _heartbeat, lines 118-124: the sleep is over and the ping, or the wait  *)
(* for the pong, raised.  An answered ping leaves every field as it is:    *)
(* the loop test of line 117 holds as long as close() was not called, and  *)
(* close() closes the socket                                               *)
MgrHeartbeatPing ==
    /\ ws.heartbeat = "sleep"
    /\ ws.pc = "listen"
    /\ ws' = [ws EXCEPT !.heartbeat = "hook"]
    /\ wire' = [wire EXCEPT !.raised = @ + 1]

(* _heartbeat, lines 125-130: on_error is called; when it raises the task  *)
(* ends with its exception and the socket is not closed                    *)
MgrHeartbeatHook ==
    /\ ws.heartbeat = "hook"
    /\ ws.pc = "listen"
    /\ wire' = [wire EXCEPT !.hooked = @ + 1]
    /\ \/ ws' = [ws EXCEPT !.heartbeat = "returned", !.closed = TRUE]
       \/ ws' = [ws EXCEPT !.heartbeat = "raised"]

(* _listen_loop, lines 101-114: a message reaches on_message, which        *)
(* returns or raises                                                       *)
MgrMessage ==
    /\ ws.pc = "listen"
    /\ ~ws.closed
    /\ wire.dispatched < MaxMessages
    /\ \/ /\ ws' = ws
          /\ wire' = [wire EXCEPT !.dispatched = @ + 1]
       \/ /\ ws' = [ws EXCEPT !.pc = "unwind", !.exc = "error"]
          /\ wire' = [wire EXCEPT !.dispatched = @ + 1, !.raised = @ + 1]

(* the peer or the network ends the connection *)
MgrConnectionLost ==
    /\ ws.pc = "listen"
    /\ ~ws.closed
    /\ ws' = [ws EXCEPT !.closed = TRUE]
    /\ UNCHANGED wire

(* _listen_loop, line 101, on a closed socket: the iteration ends, or      *)
(* raises ConnectionClosedError                                            *)
MgrListenEnd ==
    /\ ws.pc = "listen"
    /\ ws.closed
    /\ \/ /\ ws' = [ws EXCEPT !.pc = "unwind"]
          /\ UNCHANGED wire
       \/ /\ ws' = [ws EXCEPT !.pc = "unwind", !.exc = "error"]
          /\ wire' = [wire EXCEPT !.raised = @ + 1]

(* run, lines 147-149: heartbeat_task.cancel() and await heartbeat_task    *)
(* under suppress(Exception).  A task that is over gives its result or an  *)
(* Exception, which is suppressed; a task that was still pending is        *)
(* cancelled, and awaiting it raises asyncio.CancelledError, which is not  *)
(* an Exception (asyncio.to_thread, used at async_runtime.py:72, needs     *)
(* Python 3.9) and replaces the exception that was propagating             *)
awaited_heartbeat(heartbeat, exc) == IF heartbeat \in {"returned", "raised"} THEN exc ELSE "cancel"

(* run, lines 146-151 *)
MgrUnwind ==
    /\ ws.pc = "unwind"
    /\ LET exc == awaited_heartbeat(ws.heartbeat, ws.exc)
       IN ws' = [ws EXCEPT !.exc = exc,
                           !.heartbeat = IF @ \in {"returned", "raised"}
                                         THEN @ ELSE "cancelled",
                           !.pc = IF exc = "error" THEN "error" ELSE "cleanup"]
    /\ UNCHANGED wire

(* run, lines 152-154: on_error is called and returns or raises *)
MgrErrorHook ==
    /\ ws.pc = "error"
    /\ wire' = [wire EXCEPT !.hooked = @ + 1]
    /\ \/ ws' = [ws EXCEPT !.pc = "cleanup", !.exc = "none"]
       \/ ws' = [ws EXCEPT !.pc = "cleanup", !.exc = "hook"]

(* run, lines 155-160 *)
MgrCleanup ==
    /\ ws.pc = "cleanup"
    /\ ws' = [ws EXCEPT !.socket = NoSocket, !.closed = FALSE,
                        !.pc = CASE ws.exc = "cancel" -> "cancelled"
                                 [] ws.exc = "hook" -> "raised"
                                 [] OTHER -> IF ws.running THEN "sleep" ELSE "loop"]
    /\ UNCHANGED wire

(* _reconnect, lines 133-136 *)
MgrReconnect ==
    /\ ws.pc = "sleep"
    /\ ws' = [ws EXCEPT
           !.reconnect_wait = Min2(ws.reconnect_wait * 2, ws.reconnect_max_delay),
           !.pc = "loop"]
    /\ UNCHANGED wire

(* close, called once while run() is running *)
MgrClose ==
    /\ ws.pc \notin EndedPcs \cup {"stopped"}
    /\ ~wire.close_called
    /\ ws' = [ws EXCEPT !.running = FALSE,
                        !.closed = IF ws.socket # NoSocket THEN TRUE ELSE @]
    /\ wire' = [wire EXCEPT !.close_called = TRUE]

(* the task of run() is cancelled while it awaits *)
MgrCancel ==
    /\ ws.pc \in {"connect", "replay", "listen", "error", "sleep"}
    /\ ~wire.cancel_requested
    /\ ws' = [ws EXCEPT !.exc = "cancel",
                        !.pc = IF ws.pc = "listen" THEN "unwind" ELSE "cleanup"]
    /\ wire' = [wire EXCEPT !.cancel_requested = TRUE]

(* ======================= a tick of the pipeline (pipeline.py) =========== *)

MaxTickCommands == 1

(* the signals of a tick of the pipeline, and the btc signals of a         *)
(* realtime cycle                                                          *)
PipelineSignalLists ==
    { <<Sig("KXHIGHNY-A", "buy_no", TRUE)>>,
      <<Sig("KXBTC15M-A", "buy_no", TRUE), Sig("KXHIGHNY-A", "buy_no", TRUE)>> }
RealtimeSignalLists == { <<>>, <<Sig("KXBTC15M-A", "buy_no", TRUE)>> }

(* no tick is running.  always_blocked, execute_called, reconcile_called,  *)
(* allow_reprice, rows_before and cancels_before are history               *)
NoTick ==
    [kind |-> "none", step |-> "none", weather_gate_blocked |-> FALSE,
     always_blocked |-> TRUE, execute_called |-> FALSE, reconcile_called |-> FALSE,
     allow_reprice |-> FALSE, rows_before |-> 0, cancels_before |-> 0,
     switched |-> FALSE]   \* a command changed the gate's answer after line 463 ran

(* faulty variant: a paused pipeline still trades *)
TradingBlocked_pause_ignored == ~runtime_auto_trading_enabled

(* run_once, line 463, and run_realtime_btc_cycle, line 692 *)
TradingBlocked == paused \/ ~runtime_auto_trading_enabled

(* faulty variant: allow_reprice that forgets the pause *)
AllowReprice_pause_ignored == runtime_auto_trading_enabled

(* run_once, line 482: allow_reprice as passed to reconcile_open_orders *)
AllowReprice == ~paused /\ runtime_auto_trading_enabled

(* the tick goes on: has trading been blocked at each of its steps so far, *)
(* and has a command changed the answer of the gate since the gate ran     *)
Observed(next_tick) ==
    tick' = [next_tick EXCEPT
                !.always_blocked = @ /\ (paused' \/ ~runtime_auto_trading_enabled'),
                !.switched = @ \/ (/\ tick.kind = "run_once"
                                   /\ tick.step \in {"trading", "traded"}
                                   /\ (paused' \/ ~runtime_auto_trading_enabled')
                                         # (paused \/ ~runtime_auto_trading_enabled))]

(* the engine call of the tick has returned, or the tick made none *)
EngineReturned ==
    \/ tick.step = "traded"
    \/ tick.step = "trading" /\ pc = "idle" /\ phase = "executed"

TickDone ==
    \/ tick.kind = "none"
    \/ tick.step = "done"
    \/ tick.step = "reconciling" /\ pc = "idle"
    \/ tick.kind = "realtime" /\ EngineReturned

(* run_forever / periodic_poll_loop: the next tick, with new market data *)
NextTick ==
    /\ TickDone
    /\ Tick
    /\ tick' = NoTick
    /\ UNCHANGED modeVars

(* run_once, lines 449-461: the weather live gates *)
RunOnceBegin ==
    /\ UNCHANGED modeVars
    /\ tick.kind = "none"
    /\ pc = "idle"
    /\ phase = "start"
    /\ \E gates_ok \in (IF runtime_mode \in LiveModes THEN BOOLEAN ELSE {TRUE}) :
          Observed([NoTick EXCEPT !.kind = "run_once", !.step = "gated",
                                  !.weather_gate_blocked = ~gates_ok,
                                  !.rows_before = Len(orders),
                                  !.cancels_before = Len(cancel_log)])
    /\ UNCHANGED engineVars

(* run_once, lines 463-475: execute, unless paused or not auto-trading *)
RunOnceTrade ==
    /\ UNCHANGED modeVars
    /\ tick.kind = "run_once"
    /\ tick.step = "gated"
    /\ IF TradingBlocked
       THEN /\ Observed([tick EXCEPT !.step = "traded"])
            /\ UNCHANGED engineVars
       ELSE /\ Observed([tick EXCEPT !.step = "trading", !.execute_called = TRUE])
            /\ \/ ExecuteCall(IF signals = NotCollected THEN PipelineSignalLists
                               ELSE {signals},
                               IF tick.weather_gate_blocked THEN {"weather"} ELSE {},
                               {<<>>}, MaxOrders)
               \/ ExecuteDisabled

(* run_once, lines 477-487: reconcile_open_orders in the sandbox mode *)
RunOnceReconcile ==
    /\ UNCHANGED modeVars
    /\ tick.kind = "run_once"
    /\ EngineReturned
    /\ IF paper_trading_mode = "kalshi_demo"
       THEN /\ ReconcileCall(IF signals = NotCollected THEN PipelineSignalLists
                                 ELSE {signals},
                                 {AllowReprice})
            /\ Observed([tick EXCEPT !.step = "reconciling", !.reconcile_called = TRUE,
                                     !.allow_reprice = AllowReprice])
       ELSE /\ Observed([tick EXCEPT !.step = "done"])
            /\ UNCHANGED engineVars

(* run_realtime_btc_cycle, lines 692-704 *)
RealtimeCycle ==
    /\ UNCHANGED modeVars
    /\ tick.kind = "none"
    /\ pc = "idle"
    /\ phase = "start"
    /\ signals = NotCollected
    /\ LET begun == [NoTick EXCEPT !.kind = "realtime", !.rows_before = Len(orders),
                                   !.cancels_before = Len(cancel_log)]
       IN \/ /\ ~TradingBlocked
             /\ Observed([begun EXCEPT !.step = "trading", !.execute_called = TRUE])
             /\ \/ ExecuteCall(RealtimeSignalLists \ {<<>>}, {}, {<<>>}, MaxOrders)
                \/ ExecuteDisabled
          \/ /\ Observed([begun EXCEPT !.step = "traded"])
             /\ UNCHANGED engineVars
             /\ TradingBlocked \/ <<>> \in RealtimeSignalLists

(* the statuses the exchange reports in the ticks of the pipeline *)
ReportedStatuses == {"submitted", "filled"}

(* a step inside the engine call of the tick *)
EngineStep ==
    /\ UNCHANGED modeVars
    /\ tick.kind # "none"
    /\ \/ ExecuteStep
       \/ ExecuteEnd
       \/ /\ ReconcileStatus
          /\ ~trace'.fetched[Len(trace'.fetched)].raised
          /\ trace'.fetched[Len(trace'.fetched)].reported \in ReportedStatuses
       \/ ReconcileQueueFetch
       \/ ReconcileQueue
       \/ ReconcileEnd
    /\ Observed(tick)

(* poll_commands: a command of the operator, handled in its own thread     *)
(* (async_runtime.py command_poll_loop) at any point of a tick.  The       *)
(* engine reads none of the variables a command writes, so a command that  *)
(* arrives during an engine call is taken when the call has returned.      *)
OperatorCommand ==
    /\ commands.count < MaxTickCommands
    /\ pc = "idle"
    /\ \/ RequestModeChange
       \/ ConfirmLiveMode
       \/ SetPaused
    /\ Observed(tick)
    /\ UNCHANGED engineVars

(* ======================= KalshiFeed (ws/kalshi_feed.py) ================= *)

MaxQuantity == 2
MaxSeq == 2

(* dict.get of a key the message does not have, or a JSON null: None *)
Missing == -9

FeedTickers == {"KXBTC15M-A"}
FeedPrices == {40, 60}
Seqs == {Missing} \cup (1 .. MaxSeq)

(* a level of a message: a JSON object, or a pair [first, second] *)
ObjectLevel(price, delta, quantity) ==
    [enc |-> "object", price |-> price, second |-> Missing, delta |-> delta,
     quantity |-> quantity, qty |-> Missing]
PairLevel(first, second) ==
    [enc |-> "pair", price |-> first, second |-> second, delta |-> Missing,
     quantity |-> Missing, qty |-> Missing]

(* a or b of Python, for a and b an int or None *)
py_or(a, b) == IF a = Missing \/ a = 0 THEN b ELSE a

(* a side of a book: the quantity at each price, Missing where the dict    *)
(* has no such key                                                         *)
EmptyBook == [price \in FeedPrices |-> Missing]
Keys(side_book) == {price \in FeedPrices : side_book[price] # Missing}
SetMax(S) == CHOOSE x \in S : \A y \in S : y <= x

(* the default of the defaultdict, lines 37-39 *)
EmptyOrderbook ==
    [yes |-> EmptyBook, no |-> EmptyBook, seq |-> Missing,
     best_yes_bid |-> Missing, best_yes_ask |-> Missing]

(* _handle_orderbook_snapshot, lines 93-105 and 106-118: the dict built    *)
(* from the levels of one side; int(None) raises and the level is skipped  *)
RECURSIVE snapshot_levels(_, _)
snapshot_levels(levels, built) ==
    IF levels = <<>> THEN built
    ELSE LET level == Head(levels)
             px == level.price
             qty == IF level.enc = "object"
                    THEN py_or(level.quantity, level.qty)
                    ELSE level.second
         IN snapshot_levels(Tail(levels),
                IF px = Missing \/ qty = Missing
                THEN built
                ELSE [built EXCEPT ![px] = qty])

(* _refresh_best_prices *)
refresh_best_prices(state) ==
    LET yes_bid == IF Keys(state.yes) # {} THEN SetMax(Keys(state.yes)) ELSE Missing
        no_bid == IF Keys(state.no) # {} THEN SetMax(Keys(state.no)) ELSE Missing
        yes_ask == IF no_bid = Missing THEN Missing ELSE 100 - no_bid
    IN [state EXCEPT !.best_yes_bid = yes_bid, !.best_yes_ask = yes_ask]

(* _handle_orderbook_snapshot, lines 119-123 *)
handle_orderbook_snapshot(state, msg) ==
    refresh_best_prices(
        [state EXCEPT !.yes = snapshot_levels(msg.yes, EmptyBook),
                      !.no = snapshot_levels(msg.no, EmptyBook),
                      !.seq = msg.seq])

(* _handle_orderbook_delta, lines 135-163: the levels of one side applied  *)
(* to the side's book                                                      *)
RECURSIVE delta_levels(_, _)
delta_levels(levels, side_book) ==
    IF levels = <<>> THEN side_book
    ELSE LET level == Head(levels)
             px == level.price
             delta == IF level.enc = "object" THEN level.delta ELSE level.second
             quantity == IF level.enc = "object"
                         THEN py_or(level.quantity, level.qty)
                         ELSE Missing
             held == IF side_book[px] = Missing THEN 0 ELSE side_book[px]
         IN delta_levels(Tail(levels),
                CASE px = Missing -> side_book
                  [] px # Missing /\ delta # Missing ->
                        [side_book EXCEPT ![px] =
                            IF held + delta <= 0 THEN Missing ELSE held + delta]
                  [] px # Missing /\ delta = Missing /\ quantity # Missing ->
                        [side_book EXCEPT ![px] =
                            IF quantity <= 0 THEN Missing ELSE quantity]
                  [] OTHER -> side_book)

(* _handle_orderbook_delta *)
handle_orderbook_delta(state, msg) ==
    refresh_best_prices(
        [state EXCEPT !.yes = delta_levels(msg.yes, state.yes),
                      !.no = delta_levels(msg.no, state.no),
                      !.seq = msg.seq])

(* _handle_ticker *)
handle_ticker(state, msg) ==
    [state EXCEPT
        !.best_yes_bid = IF msg.yes_bid # Missing THEN msg.yes_bid ELSE @,
        !.best_yes_ask = IF msg.yes_ask # Missing THEN msg.yes_ask
                         ELSE IF msg.no_bid # Missing THEN 100 - msg.no_bid
                         ELSE @]

(* the messages of the exchange *)
SnapshotSides ==
    { <<>>,
      <<PairLevel(40, 1)>>,
      <<PairLevel(60, MaxQuantity), PairLevel(40, 1)>>,
      <<PairLevel(60, 0)>>,
      <<ObjectLevel(60, Missing, 0)>>,
      <<ObjectLevel(40, Missing, 1)>> }
DeltaSides ==
    { <<>> }
    \cup { <<PairLevel(price, delta)>> : price \in FeedPrices, delta \in {-1, 1} }
    \cup { <<ObjectLevel(price, 1, Missing)>> : price \in FeedPrices }
    \cup { <<ObjectLevel(price, Missing, quantity)>> :
              price \in FeedPrices, quantity \in {-1, 0, MaxQuantity} }
TickerQuotes == {Missing, 60}

Message(type, ticker, seq, yes, no, yes_bid, yes_ask, no_bid) ==
    [type |-> type, market_ticker |-> ticker, seq |-> seq, yes |-> yes, no |-> no,
     yes_bid |-> yes_bid, yes_ask |-> yes_ask, no_bid |-> no_bid]

(* the delta repeats or goes back behind the seq recorded for its ticker *)
IsStaleDelta(state, msg) ==
    /\ msg.type = "orderbook_delta"
    /\ msg.seq # Missing
    /\ state.seq # Missing
    /\ msg.seq <= state.seq

FeedIdle ==
    feed = [orderbooks |-> [ticker \in FeedTickers |-> EmptyOrderbook],
            last |-> [stale |-> FALSE]]

WithinQuantity(state) ==
    \A price \in FeedPrices :
        state.yes[price] <= MaxQuantity /\ state.no[price] <= MaxQuantity

(* _on_message, lines 68-86, and the handler it calls *)
on_message(msg) ==
    LET ticker == msg.market_ticker
        state == feed.orderbooks[ticker]
        handled == CASE msg.type = "orderbook_snapshot" -> handle_orderbook_snapshot(state, msg)
                     [] msg.type = "orderbook_delta" -> handle_orderbook_delta(state, msg)
                     [] msg.type = "ticker" -> handle_ticker(state, msg)
                     [] OTHER -> state
    IN IF ticker = ""
       THEN feed' = [feed EXCEPT !.last = [stale |-> FALSE]]
       ELSE /\ WithinQuantity(handled)
            /\ feed' = [feed EXCEPT
                   !.orderbooks[ticker] = handled,
                   !.last = [stale |-> IsStaleDelta(state, msg)]]

MessageTickers == FeedTickers \cup {""}

FeedSnapshot ==
    \E ticker \in MessageTickers, seq \in Seqs, yes \in SnapshotSides,
       no \in {<<>>, <<PairLevel(40, 1)>>, <<PairLevel(60, MaxQuantity), PairLevel(40, 1)>>} :
        on_message(Message("orderbook_snapshot", ticker, seq, yes, no,
                           Missing, Missing, Missing))

FeedDelta ==
    \E ticker \in MessageTickers, seq \in Seqs, side \in {"yes", "no"}, levels \in DeltaSides :
        on_message(Message("orderbook_delta", ticker, seq,
                           IF side = "yes" THEN levels ELSE <<>>,
                           IF side = "no" THEN levels ELSE <<>>,
                           Missing, Missing, Missing))

FeedTicker ==
    \E ticker \in MessageTickers, yes_bid \in TickerQuotes, yes_ask \in TickerQuotes,
       no_bid \in TickerQuotes :
        on_message(Message("ticker", ticker, Missing, <<>>, <<>>,
                           yes_bid, yes_ask, no_bid))

FeedLifecycle ==
    \E ticker \in MessageTickers :
        on_message(Message("market_lifecycle_v2", ticker, Missing, <<>>, <<>>,
                           Missing, Missing, Missing))

(* ------------ a KalshiFeed handler and a reader in another thread ------ *)
(* The handlers run in the event-loop thread; run_once runs in a worker    *)
(* thread (asyncio.to_thread) and gets the dict of get_orderbook, which is *)
(* the dict the handlers write to, key by key.                              *)
MaxApplied == 2

NoReader == [pc |-> "none"]
ReaderIdle == reader = NoReader

NoMessage == [type |-> "none"]

ReaderStart ==
    [pc |-> "idle", msg |-> NoMessage, book |-> EmptyOrderbook,
     prefixes |-> {EmptyOrderbook}, received |-> 0,
     pos |-> "none", seen |-> [yes |-> EmptyBook, no |-> EmptyBook]]

ReaderSides ==
    { <<>>, <<PairLevel(40, 1)>>, <<PairLevel(60, MaxQuantity), PairLevel(40, 1)>> }
ReaderDeltas ==
    { <<>>, <<PairLevel(60, 1)>>, <<PairLevel(60, 1), PairLevel(40, -1)>> }

(* _on_message: the handler of the message is entered; the snapshot        *)
(* handler builds both sides in locals first (lines 91-118).  prefixes     *)
(* (history) gains the book as it is once the whole message is applied     *)
HandleBegin ==
    /\ reader.pc = "idle"
    /\ reader.received < MaxApplied
    /\ \E type \in {"orderbook_snapshot", "orderbook_delta"}, seq \in 1 .. MaxSeq :
         \E yes \in (IF type = "orderbook_snapshot" THEN ReaderSides ELSE ReaderDeltas),
            no \in (IF type = "orderbook_snapshot" THEN ReaderSides ELSE ReaderDeltas) :
             LET msg == Message(type, "KXBTC15M-A", seq, yes, no, Missing, Missing, Missing)
                 applied == IF type = "orderbook_snapshot"
                            THEN handle_orderbook_snapshot(reader.book, msg)
                            ELSE handle_orderbook_delta(reader.book, msg)
             IN /\ WithinQuantity(applied)
                /\ reader' = [reader EXCEPT
                       !.pc = "yes",
                       !.received = @ + 1,
                       !.prefixes = @ \cup {applied},
                       !.msg = msg]

(* one store to a side: state["yes"] = yes_levels of the snapshot handler  *)
(* (lines 120-121), or one level of the delta handler (lines 131-163)      *)
HandleSide ==
    /\ reader.pc \in {"yes", "no"}
    /\ LET side_key == reader.pc
           levels == reader.msg[side_key]
           after == IF side_key = "yes" THEN "no" ELSE "seq"
       IN IF reader.msg.type = "orderbook_snapshot"
          THEN reader' = [reader EXCEPT
                   !.book[side_key] = snapshot_levels(levels, EmptyBook),
                   !.pc = after]
          ELSE IF levels = <<>>
          THEN reader' = [reader EXCEPT !.pc = after]
          ELSE reader' = [reader EXCEPT
                   !.book[side_key] = delta_levels(<<Head(levels)>>, @),
                   !.msg[side_key] = Tail(levels)]

(* state["seq"] = msg.get("seq"), lines 122 and 164 *)
HandleSeq ==
    /\ reader.pc = "seq"
    /\ reader' = [reader EXCEPT !.book.seq = reader.msg.seq, !.pc = "best_yes_bid"]

(* _refresh_best_prices, lines 195-203: its two stores; the handler        *)
(* returns after the second and the message is applied                     *)
HandleRefreshBestPrices ==
    /\ reader.pc \in {"best_yes_bid", "best_yes_ask"}
    /\ LET refreshed == refresh_best_prices(reader.book)
       IN IF reader.pc = "best_yes_bid"
          THEN reader' = [reader EXCEPT
                   !.book.best_yes_bid = refreshed.best_yes_bid,
                   !.pc = "best_yes_ask"]
          ELSE reader' = [reader EXCEPT
                   !.book.best_yes_ask = refreshed.best_yes_ask,
                   !.msg = NoMessage,
                   !.pc = "idle"]

(* PriceProvider.get_kalshi_orderbook, line 105, called by                 *)
(* DataPipeline._get_orderbook: the poll thread gets the dict itself       *)
GetOrderbook ==
    /\ reader.pc # "none"
    /\ reader.pos \in {"none", "done"}
    /\ reader' = [reader EXCEPT !.pos = "yes"]

(* orderbook.get("yes") and orderbook.get("no") of the reader               *)
(* (signals/bracket_arb.py, _all_yes_candidate and _all_no_candidate)      *)
ReadSide ==
    /\ reader.pc # "none"
    /\ reader.pos \in {"yes", "no"}
    /\ reader' = [reader EXCEPT
           !.seen[reader.pos] = reader.book[reader.pos],
           !.pos = IF reader.pos = "yes" THEN "no" ELSE "done"]

(* ------------ the store's one connection and its callers (db.py) ------- *)
(* PostgresStore holds one psycopg connection (line 28).  Its statements   *)
(* are serialized, all cursors share the connection's one transaction, and *)
(* conn.commit() makes durable whatever that transaction holds.  run_once  *)
(* calls the store in a worker thread; the command-poll and health loops   *)
(* call insert_alert_events in worker threads of their own.                *)
MaxBatch == 2
MaxStoreCalls == 2

StoreCallers == {"poll", "command", "health"}
NoStoreCall == [pc |-> "idle", todo |-> 0, written |-> {}]

NoStore == [pc |-> "none"]
StoreIdle == store = NoStore

StoreOpen ==
    [pc |-> "open", durable |-> {}, pending |-> {}, next_id |-> 1,
     call |-> [caller \in StoreCallers |-> NoStoreCall], calls |-> 0]

Row(table, id) == [table |-> table, id |-> id]

StoreBegin(caller) ==
    /\ store.pc = "open"
    /\ store.call[caller].pc = "idle"
    /\ store.calls < MaxStoreCalls
    /\ \E batch \in 1 .. MaxBatch :
          store' = [store EXCEPT
              !.calls = @ + 1,
              !.call[caller] = [pc |-> "insert", todo |-> batch, written |-> {}]]

(* insert_paper_trade_orders is entered by the poll thread (execute and    *)
(* reconcile_open_orders end with it)                                      *)
InsertPaperTradeOrders == StoreBegin("poll")

(* lines 469-510: INSERT INTO paper_trade_orders ... RETURNING id *)
InsertOrderRow ==
    /\ store.pc = "open"
    /\ store.call["poll"].pc = "insert"
    /\ LET row == Row("paper_trade_orders", store.next_id)
       IN store' = [store EXCEPT
              !.pending = @ \cup {row},
              !.next_id = @ + 1,
              !.call["poll"].written = @ \cup {row},
              !.call["poll"].pc = "event"]

(* lines 511-535: the initial event of the order just inserted *)
InsertOrderEventRow ==
    /\ store.pc = "open"
    /\ store.call["poll"].pc = "event"
    /\ LET row == Row("paper_trade_order_events", store.next_id - 1)
           left == store.call["poll"].todo - 1
       IN store' = [store EXCEPT
              !.pending = @ \cup {row},
              !.call["poll"].written = @ \cup {row},
              !.call["poll"].todo = left,
              !.call["poll"].pc = IF left = 0 THEN "commit" ELSE "insert"]

(* insert_alert_events is entered by the command-poll loop                 *)
(* (async_runtime.py:194) or the health loop (async_runtime.py:171)        *)
InsertAlertEvents(caller) ==
    /\ caller \in {"command", "health"}
    /\ StoreBegin(caller)

(* lines 579-605: INSERT INTO alert_events ... RETURNING id *)
InsertAlertRow(caller) ==
    /\ caller \in {"command", "health"}
    /\ store.pc = "open"
    /\ store.call[caller].pc = "insert"
    /\ LET row == Row("alert_events", store.next_id)
           left == store.call[caller].todo - 1
       IN store' = [store EXCEPT
              !.pending = @ \cup {row},
              !.next_id = @ + 1,
              !.call[caller].written = @ \cup {row},
              !.call[caller].todo = left,
              !.call[caller].pc = IF left = 0 THEN "commit" ELSE "insert"]

(* self.conn.commit(), lines 536 and 608: the shared transaction is        *)
(* committed, the rows of the other callers' statements with it            *)
StoreCommit(caller) ==
    /\ store.pc = "open"
    /\ store.call[caller].pc = "commit"
    /\ store' = [store EXCEPT
           !.durable = @ \cup store.pending,
           !.pending = {},
           !.call[caller] = NoStoreCall]

(* ============ operational alerts (pipeline.py, async_runtime.py) ====== *)

MaxFilterCalls == 3

(* time in units of three hours *)
operational_alert_cooldown == 2
operational_alert_gc_age == 16
operational_alert_max_per_cycle == 3

(* the instants at which something happens: 0, 3 and 6 hours, and 54 and   *)
(* 57 hours, which is past the two days of the garbage collection          *)
Instants == {0, 1, 2, 18, 19}

(* what is remembered of the passes of a text through the filter: when the *)
(* last one was, and whether some pass came less than the cooldown after   *)
(* the pass before it (no now_utc is earlier than one used before)         *)
NeverPassed == [at |-> Missing, early |-> FALSE]
Passed(passed, now_utc) ==
    [at |-> now_utc,
     early |-> passed.early
               \/ (passed.at # Missing /\ now_utc - passed.at < operational_alert_cooldown)]

(* the callers: run_once, which periodic_poll_loop runs in a worker thread *)
(* (asyncio.to_thread), and ws_rest_health_loop, which runs in the thread  *)
(* of the event loop                                                       *)
Callers == {"poll", "health"}

(* the texts of run_once (edge decay and arbitrage, pipeline.py:526-543)   *)
(* and those of the health loop (async_runtime.py:139, 155-159).  No text  *)
(* starts or ends with white space, and the two callers share no text; "m" *)
(* is stripped to itself and " " to "".                                    *)
PollTexts == {"edge decayed", "arbitrage detected"}
HealthTexts == {"orderbook missing"}
AlertTexts == PollTexts \cup HealthTexts
PollMessageLists ==
    { <<>>, <<"edge decayed">>, <<"edge decayed", "arbitrage detected">>,
      <<"arbitrage detected", "arbitrage detected">> }
HealthMessageLists == { <<"orderbook missing">> }

(* message.strip(), line 144 *)
strip(message) == IF message = " " THEN "" ELSE message

NoFilterCall ==
    [pc |-> "idle", now_utc |-> 0, messages |-> <<>>, filtered |-> 0,
     seen_this_cycle |-> {}, last_sent_at |-> Missing, scanned |-> {},
     stale_keys |-> {}]

(* DataPipeline.__init__, lines 45-47 *)
AlertsIdle ==
    alerts = [last_sent_at |-> [key \in AlertTexts |-> Missing],
              clock |-> 0,
              call |-> [caller \in Callers |-> NoFilterCall],
              calls |-> [caller \in Callers |-> 0],
              passed |-> [text \in AlertTexts |-> NeverPassed]]

SentKeys == {key \in AlertTexts : alerts.last_sent_at[key] # Missing}

(* time passes, by hours only while neither caller is at work: a tick and  *)
(* a call of the filter take seconds                                       *)
AlertClock ==
    \E instant \in Instants :
        /\ \A caller \in Callers : alerts.call[caller].pc = "idle"
        /\ instant > alerts.clock
        /\ alerts' = [alerts EXCEPT !.clock = instant]

(* run_once, line 219: now is read when the tick starts *)
PollTickBegin ==
    /\ alerts.call["poll"].pc = "idle"
    /\ alerts.calls["poll"] < MaxFilterCalls
    /\ alerts' = [alerts EXCEPT !.call["poll"].pc = "tick",
                                !.call["poll"].now_utc = alerts.clock]

(* _filter_operational_alerts, lines 128-135: the call, up to the start of *)
(* the scan of the map.  run_once calls with the now of its tick and only  *)
(* with messages (line 544); the health loop calls with the current time   *)
FilterBegin(caller, now_utc, messages) ==
    alerts' = [alerts EXCEPT
        !.calls[caller] = @ + 1,
        !.call[caller] = [NoFilterCall EXCEPT !.pc = "gc_scan", !.now_utc = now_utc,
                                              !.messages = messages,
                                              !.scanned = SentKeys]]

PollFilter ==
    /\ alerts.call["poll"].pc = "tick"
    /\ \E messages \in PollMessageLists :
          IF messages = <<>>
          THEN alerts' = [alerts EXCEPT !.calls["poll"] = @ + 1,
                                        !.call["poll"] = NoFilterCall]
          ELSE FilterBegin("poll", alerts.call["poll"].now_utc, messages)

HealthFilter ==
    /\ alerts.call["health"].pc = "idle"
    /\ alerts.calls["health"] < MaxFilterCalls
    /\ \E messages \in HealthMessageLists :
          FilterBegin("health", alerts.clock, messages)

(* lines 134-139: the scan is over.  The other thread may have added or    *)
(* removed a key meanwhile: the iteration then raises RuntimeError, or     *)
(* not, depending on where it was                                          *)
FilterGcScan(caller) ==
    LET call == alerts.call[caller]
        gc_before == call.now_utc - operational_alert_gc_age
    IN /\ call.pc = "gc_scan"
       /\ \/ alerts' = [alerts EXCEPT
                 !.call[caller].pc = "gc_pop",
                 !.call[caller].stale_keys =
                     {key \in SentKeys : alerts.last_sent_at[key] < gc_before}]
          \/ /\ SentKeys # call.scanned
             /\ alerts' = [alerts EXCEPT !.call[caller] = NoFilterCall]

(* lines 140-141 *)
FilterGcPop(caller) ==
    LET call == alerts.call[caller]
    IN /\ call.pc = "gc_pop"
       /\ alerts' = [alerts EXCEPT
              !.last_sent_at = [key \in AlertTexts |->
                                   IF key \in call.stale_keys THEN Missing ELSE @[key]],
              !.call[caller].pc = "get",
              !.call[caller].stale_keys = {}]

(* lines 143-148, or the return of line 155 *)
FilterGet(caller) ==
    LET call == alerts.call[caller]
        key == strip(Head(call.messages))
    IN /\ call.pc = "get"
       /\ IF call.messages = <<>>
          THEN alerts' = [alerts EXCEPT !.call[caller] = NoFilterCall]
          ELSE IF key = "" \/ key \in call.seen_this_cycle
          THEN alerts' = [alerts EXCEPT !.call[caller].messages = Tail(@)]
          ELSE alerts' = [alerts EXCEPT
                   !.call[caller].seen_this_cycle = @ \cup {key},
                   !.call[caller].last_sent_at = alerts.last_sent_at[key],
                   !.call[caller].pc = "check"]

(* line 149 *)
in_cooldown(now_utc, last_sent_at) == last_sent_at # Missing /\ now_utc - last_sent_at < operational_alert_cooldown

(* lines 149-154 *)
FilterCheck(caller) ==
    LET call == alerts.call[caller]
        message == Head(call.messages)
        key == strip(message)
    IN /\ call.pc = "check"
       /\ IF in_cooldown(call.now_utc, call.last_sent_at)
          THEN alerts' = [alerts EXCEPT !.call[caller].messages = Tail(@),
                                        !.call[caller].pc = "get",
                                        !.call[caller].last_sent_at = Missing]
          ELSE alerts' = [alerts EXCEPT
                   !.passed[message] = Passed(@, call.now_utc),
                   !.last_sent_at[key] = call.now_utc,
                   !.call[caller] =
                       IF call.filtered + 1 >= operational_alert_max_per_cycle
                       THEN NoFilterCall
                       ELSE [call EXCEPT !.filtered = @ + 1, !.messages = Tail(@),
                                         !.pc = "get", !.last_sent_at = Missing]]

(* ======================= run_once, stage by stage (pipeline.py) ======== *)

(* One tick of DataPipeline.run_once as the sequence of its stages. A stage *)
(* is a step; what a call inside it returns or raises is chosen freely.    *)
(* writes is the order in which the tick called the writing methods of the *)
(* store, ran the stages the tick entered, failed the stages that raised.  *)

NoCycle == [pc |-> "none"]
CycleIdle == cycle = NoCycle

CycleSettings ==
    {settings \in
        [weather_enabled : BOOLEAN, btc_enabled : BOOLEAN,
         backfill : BOOLEAN,                   \* run_historical_backfill_on_start and not did_backfill
         paper_trading_mode : {"simulate", "kalshi_demo"},
         runtime_mode : {"custom", "live_safe", "live_auto"},
         paused : BOOLEAN, runtime_auto_trading_enabled : BOOLEAN] :
        /\ settings.runtime_mode = "live_safe" => ~settings.runtime_auto_trading_enabled
        /\ settings.runtime_mode = "live_auto" => settings.runtime_auto_trading_enabled}

CycleStart(settings) ==
    [pc |-> "list_markets", settings |-> settings, writes |-> <<>>,
     ran |-> {}, failed |-> {}, weather_samples |-> FALSE,
     serialized_arb_rows |-> FALSE, stats |-> FALSE, last_poll_at |-> "earlier",
     gate_failed |-> FALSE,             \* a weather live gate failed in this tick (history)
     weather_gate_blocked |-> Missing]  \* paper_stats["weather_gate_blocked"]

Entered(c, stage) == [c EXCEPT !.ran = @ \cup {stage}]
Raised(c, stage) == [c EXCEPT !.failed = @ \cup {stage}]
Wrote(c, classes) == [c EXCEPT !.writes = @ \o classes]
At(c, pc_next) == [c EXCEPT !.pc = pc_next]

(* lines 219-224: list_markets is called outside every try *)
RunOnceListMarkets ==
    /\ cycle.pc = "list_markets"
    /\ \E outcome \in {"raises", "none", "some"} :
          cycle' = CASE outcome = "raises" -> At(Raised(cycle, "list_markets"), "raised")
                     [] outcome = "none" -> At(cycle, "no_markets")
                     [] outcome = "some" -> At(cycle, "upsert_markets")

(* lines 224-277: no market matched; resolutions are tracked and the stats *)
(* are returned at line 247, last_poll_at and last_stats are not assigned   *)
RunOnceNoMarkets ==
    /\ cycle.pc = "no_markets"
    /\ \E raises \in BOOLEAN :
          LET c == Entered(cycle, "resolution")
          IN cycle' = [At(IF raises THEN Raised(c, "resolution")
                          ELSE Wrote(c, <<"market_resolutions", "prediction_accuracy">>),
                          "returned")
                          EXCEPT !.stats = TRUE]

(* line 279: upsert_markets is called outside every try *)
RunOnceUpsertMarkets ==
    /\ cycle.pc = "upsert_markets"
    /\ \E raises \in BOOLEAN :
          cycle' = IF raises THEN At(Raised(cycle, "upsert_markets"), "raised")
                   ELSE At(Wrote(cycle, <<"markets">>), "backfill_or_not")

(* lines 281-289: a failed get_current_snapshot is caught per market,       *)
(* insert_snapshots is called outside every try                             *)
RunOnceSnapshots ==
    /\ cycle.pc = "backfill_or_not"
    /\ ~("snapshots" \in {cycle.writes[i] : i \in DOMAIN cycle.writes})
    /\ \E raises \in BOOLEAN :
          cycle' = IF raises THEN At(Raised(cycle, "insert_snapshots"), "raised")
                   ELSE Wrote(cycle, <<"snapshots">>)

(* lines 291-301: the historical backfill; a failed fetch is caught, the   *)
(* insert_snapshots of line 300 is outside the try                          *)
RunOnceBackfill ==
    /\ cycle.pc = "backfill_or_not"
    /\ "snapshots" \in {cycle.writes[i] : i \in DOMAIN cycle.writes}
    /\ IF cycle.settings.backfill
       THEN \E outcome \in {"fetch_failed", "inserted", "raises"} :
               cycle' = CASE outcome = "fetch_failed" -> At(cycle, "weather")
                          [] outcome = "inserted" -> At(Wrote(cycle, <<"snapshots">>), "weather")
                          [] outcome = "raises" -> At(Raised(cycle, "insert_snapshots"), "raised")
       ELSE cycle' = At(cycle, "weather")

(* lines 303-316: weather collection in its own try: the fetch raises, or  *)
(* an insert raises after the fetch, or both inserts return                 *)
RunOnceWeather ==
    /\ cycle.pc = "weather"
    /\ IF cycle.settings.weather_enabled
       THEN \E outcome \in {"fetch_raises", "insert_raises", "returns"} :
               LET c == Entered(cycle, "weather")
               IN cycle' = [At(IF outcome = "returns"
                               THEN Wrote(c, <<"ensemble", "ensemble">>)
                               ELSE Raised(c, "weather"), "btc")
                               EXCEPT !.weather_samples = outcome # "fetch_raises"]
       ELSE cycle' = At(cycle, "btc")

(* lines 318-324: BTC collection in its own try *)
RunOnceBtc ==
    /\ cycle.pc = "btc"
    /\ IF cycle.settings.btc_enabled
       THEN \E raises \in BOOLEAN :
               LET c == Entered(cycle, "btc")
               IN cycle' = At(IF raises THEN Raised(c, "btc")
                              ELSE Wrote(c, <<"crypto_ticks">>), "signals")
       ELSE cycle' = At(cycle, "signals")

(* lines 326-406: one try around the arbitrage scan, the weather            *)
(* probabilities, the signal builders and insert_signals; rows says whether *)
(* the scan found an opportunity, built whether a builder made a signal     *)
RunOnceSignals ==
    /\ cycle.pc = "signals"
    /\ \E raises_at \in {"scan", "insert", "nowhere"}, rows \in BOOLEAN, built \in BOOLEAN :
          /\ raises_at = "scan" => ~rows /\ ~built
          /\ raises_at = "insert" => built
          /\ LET c == Entered(cycle, "signals")
                 w == (IF cycle.weather_samples /\ raises_at # "scan"
                       THEN <<"weather_bracket_probabilities">> ELSE <<>>)
                      \o (IF built /\ raises_at = "nowhere" THEN <<"signals">> ELSE <<>>)
             IN cycle' = [At(Wrote(IF raises_at = "nowhere" THEN c ELSE Raised(c, "signals"), w),
                             "resolution")
                             EXCEPT !.serialized_arb_rows = rows]

(* lines 408-423: resolution tracking in its own try *)
RunOnceResolution ==
    /\ cycle.pc = "resolution"
    /\ \E raises \in BOOLEAN :
          LET c == Entered(cycle, "resolution")
          IN cycle' = At(IF raises THEN Raised(c, "resolution")
                         ELSE Wrote(c, <<"market_resolutions", "prediction_accuracy">>),
                         "gate")

(* lines 425-461: paper_stats is built with weather_gate_blocked 0 and the *)
(* try of the trading stage opens; in a live mode the calibration report is *)
(* read and the gates are checked, and a failed gate sets the key to 1      *)
RunOnceGate ==
    /\ cycle.pc = "gate"
    /\ LET built == [cycle EXCEPT !.weather_gate_blocked = 0]
       IN IF cycle.settings.runtime_mode \in {"live_safe", "live_auto"}
          THEN \E outcome \in {"raises", "gates_pass", "gate_fails"} :
                  LET c == Entered(built, "gate")
                  IN cycle' = CASE outcome = "raises" -> At(Raised(c, "gate"), "arb_persist")
                                [] outcome = "gates_pass" -> At(c, "execute")
                                [] outcome = "gate_fails" ->
                                     [At(c, "execute") EXCEPT !.gate_failed = TRUE,
                                                              !.weather_gate_blocked = 1]
          ELSE cycle' = At(built, "execute")

(* lines 463-475, inside the same try: execute, which ends with            *)
(* insert_paper_trade_orders when it built an order (paper_trading.py 354). *)
(* Line 470 assigns paper_stats the stats dict that execute returns, which  *)
(* has the seven keys of paper_trading.py 190-198 and no other              *)
RunOnceExecute ==
    /\ cycle.pc = "execute"
    /\ IF cycle.settings.paused \/ ~cycle.settings.runtime_auto_trading_enabled
       THEN cycle' = At(cycle, "reconcile")
       ELSE \E raises \in BOOLEAN, built \in BOOLEAN :
               LET c == Entered(cycle, "execute")
               IN cycle' = IF raises THEN At(Raised(c, "execute"), "arb_persist")
                           ELSE [At(Wrote(c, IF built THEN <<"orders">> ELSE <<>>), "reconcile")
                                    EXCEPT !.weather_gate_blocked = Missing]

(* lines 477-487, inside the same try: reconcile_open_orders. An order it  *)
(* touches gets its status updated and an event (paper_trading.py 427-645); *)
(* a reprice writes its cancel event at 583 first, and the replacement      *)
(* orders are inserted last, at 662-665                                     *)
RunOnceReconcileOpenOrders ==
    /\ cycle.pc = "reconcile"
    /\ IF cycle.settings.paper_trading_mode = "kalshi_demo"
       THEN \E touched \in BOOLEAN, repriced \in BOOLEAN, raises \in BOOLEAN :
               /\ repriced => /\ touched
                              /\ ~raises
                              /\ ~cycle.settings.paused
                              /\ cycle.settings.runtime_auto_trading_enabled
               /\ LET c == Entered(cycle, "reconcile")
                      w == (IF touched THEN <<"order_status", "reconcile_order_events">>
                            ELSE <<>>)
                           \o (IF repriced THEN <<"orders">> ELSE <<>>)
                  IN cycle' = At(Wrote(IF raises THEN Raised(c, "reconcile") ELSE c, w),
                                 "arb_persist")
       ELSE cycle' = At(cycle, "arb_persist")

(* lines 491-511: the opportunities are persisted in a try of their own *)
RunOnceArbPersist ==
    /\ cycle.pc = "arb_persist"
    /\ IF cycle.serialized_arb_rows
       THEN \E raises \in BOOLEAN :
               LET c == Entered(cycle, "arb_persist")
               IN cycle' = IF raises THEN At(Raised(c, "arb_persist"), "alerting")
                           ELSE At(Wrote(c, <<"bracket_arb_opportunities">>), "alerting")
       ELSE cycle' = At(cycle, "alerting")

(* lines 513-553: alerting in its own try *)
RunOnceAlerting ==
    /\ cycle.pc = "alerting"
    /\ \E raises \in BOOLEAN, alert_events \in BOOLEAN :
          LET c == Entered(cycle, "alerting")
          IN cycle' = IF raises THEN At(Raised(c, "alerting"), "stats")
                      ELSE At(Wrote(c, IF alert_events THEN <<"alert_events">> ELSE <<>>),
                              "stats")

(* lines 555-575 *)
RunOnceStats ==
    /\ cycle.pc = "stats"
    /\ cycle' = [Entered(cycle, "stats") EXCEPT !.pc = "returned", !.stats = TRUE,
                                                !.last_poll_at = "now"]

(* ======================= AsyncRuntime (async_runtime.py) =============== *)

(* run() of an AsyncRuntime from the creation of its tasks to its end. The *)
(* poll task hands run_once to a worker thread (asyncio.to_thread), which   *)
(* goes on when the task that awaits it is cancelled. shutdown lists the    *)
(* cancellations and the close() calls in the order they were made.         *)

NoRuntime == [pc |-> "none"]
RuntimeIdle == runtime = NoRuntime

RuntimeTasks ==
    <<"periodic_poll_loop", "command_poll_loop", "lifecycle_subscriber_loop",
      "ws_rest_health_loop", "binance_feed", "coinbase_feed", "kraken_feed", "kalshi_feed">>
RuntimeFeeds == <<"binance_feed", "coinbase_feed", "kraken_feed", "kalshi_feed">>

(* lines 29-50: kalshi_feed is None when its construction failed *)
RuntimeCreated(kalshi_feed) ==
    [pc |-> "created", kalshi_feed |-> kalshi_feed, running |-> TRUE,
     tasks |-> [i \in DOMAIN RuntimeTasks |-> "none"],
     run_once |-> "idle", shutdown |-> <<>>, closing |-> 0, in_flight_at_end |-> FALSE]

(* the tasks of the list that are running, cancelled in the order of the list *)
RECURSIVE cancellations(_, _)
cancellations(tasks, i) ==
    IF i > Len(RuntimeTasks) THEN <<>>
    ELSE (IF tasks[i] = "running" THEN <<<<"cancel", RuntimeTasks[i]>>>> ELSE <<>>)
         \o cancellations(tasks, i + 1)

cancel_all(tasks) == [i \in DOMAIN tasks |-> IF tasks[i] = "running" THEN "cancelled" ELSE tasks[i]]

(* lines 199-213: the tasks are created and gathered *)
RuntimeRun ==
    /\ runtime.pc = "created"
    /\ runtime' = [runtime EXCEPT !.pc = "gather",
                       !.tasks = [i \in DOMAIN RuntimeTasks |->
                                     IF RuntimeTasks[i] = "kalshi_feed" /\ ~runtime.kalshi_feed
                                     THEN "none" ELSE "running"]]

(* lines 174-177: the poll task starts a tick in a worker thread *)
PollRunOnce ==
    /\ runtime.pc # "none"
    /\ runtime.tasks[1] = "running"
    /\ runtime.running
    /\ runtime.run_once = "idle"
    /\ runtime' = [runtime EXCEPT !.run_once = "in_flight"]

(* the worker thread comes to the end of run_once *)
RunOnceReturns ==
    /\ runtime.pc # "none"
    /\ runtime.run_once = "in_flight"
    /\ runtime' = [runtime EXCEPT !.run_once = "idle"]

(* line 213: a task raises, and gather hands its exception to run() *)
TaskFails(i) ==
    /\ runtime.pc = "gather"
    /\ runtime.tasks[i] = "running"
    /\ ~(i = 1 /\ runtime.run_once = "in_flight")
    /\ runtime' = [runtime EXCEPT !.pc = "finally", !.tasks[i] = "failed"]

(* line 213: run() is cancelled while it gathers; gather cancels its tasks *)
RuntimeCancelled ==
    /\ runtime.pc = "gather"
    /\ runtime' = [runtime EXCEPT !.pc = "finally",
                       !.tasks = cancel_all(@),
                       !.shutdown = @ \o cancellations(runtime.tasks, 1)]

(* lines 214-217: _running is cleared and every task is cancelled *)
RuntimeFinally ==
    /\ runtime.pc = "finally"
    /\ runtime' = [runtime EXCEPT !.pc = "close", !.running = FALSE,
                       !.tasks = cancel_all(@),
                       !.shutdown = @ \o cancellations(runtime.tasks, 1),
                       !.closing = 1]

(* lines 218-222: the feeds are closed one after the other; a close that   *)
(* raises ends run(), and so does the last close                            *)
RuntimeCloseFeed ==
    /\ runtime.pc = "close"
    /\ LET next_feed == RuntimeFeeds[runtime.closing]
           last == runtime.closing = Len(RuntimeFeeds)
           ended(r) == [r EXCEPT !.pc = "ended",
                                 !.in_flight_at_end = runtime.run_once = "in_flight"]
       IN IF next_feed = "kalshi_feed" /\ ~runtime.kalshi_feed
          THEN runtime' = ended(runtime)
          ELSE \E raises \in BOOLEAN :
                  LET r == [runtime EXCEPT !.shutdown = Append(@, <<"close", next_feed>>),
                                           !.closing = @ + 1]
                  IN runtime' = IF raises \/ last THEN ended(r) ELSE r

(* ======================= bracket arbitrage (signals/bracket_arb.py) ==== *)

MaxBrackets == 3

NoScan == [pc |-> "none"]
ScanIdle == scan = NoScan

(* what the functions return for None *)
NoBook == [missing |-> TRUE]
NoCandidate == [arb_type |-> "none"]
NoBest == <<>>

(* KalshiFeeCalculator.taker_fee, lines 22-27: int(7 p (100 - p) / 10000 +  *)
(* 0.999) cents and at least one; for no price from 1 to 99 is the sum      *)
(* within a rounding error of a whole number, so the floats round as here   *)
taker_fee(price_cents) ==
    LET p == Max2(1, Min2(99, price_cents))
    IN Max2(1, (7 * p * (100 - p) + 9990) \div 10000)

(* output.sort(key=price, reverse=True): stable, highest price first *)
RECURSIVE sort_desc(_)
sort_desc(rows) ==
    IF rows = <<>> THEN <<>>
    ELSE LET top == CHOOSE i \in DOMAIN rows :
                        /\ \A j \in DOMAIN rows : rows[j][1] <= rows[i][1]
                        /\ \A j \in DOMAIN rows : (j < i) => rows[j][1] < rows[i][1]
         IN <<rows[top]>> \o sort_desc(SubSeq(rows, 1, top - 1) \o SubSeq(rows, top + 1, Len(rows)))

(* _normalize_levels, lines 34-55: rows with a quantity of zero or less are *)
(* dropped, the rest is sorted by price, highest first                      *)
normalize_levels(raw_levels) ==
    sort_desc(SelectSeq(raw_levels, LAMBDA row : row[2] > 0))

RECURSIVE depth_at(_, _)
depth_at(levels, best_price) ==
    IF levels = <<>> THEN 0
    ELSE (IF levels[1][1] = best_price THEN levels[1][2] ELSE 0)
         + depth_at(Tail(levels), best_price)

(* _best_bid_and_depth, lines 58-67 *)
best_bid_and_depth(raw_levels) ==
    LET levels == normalize_levels(raw_levels)
    IN IF levels = <<>> THEN NoBest
       ELSE LET best_price == levels[1][1]
                depth == depth_at(levels, best_price)
            IN IF depth <= 0 THEN NoBest ELSE <<best_price, depth>>

(* the loop of both candidates, lines 83-103 and 143-163: one leg per      *)
(* ticker on the side bought, priced at 100 less the best bid of the other  *)
(* side and kept within 1..99; no legs when a book or a bid is missing      *)
RECURSIVE candidate_legs(_, _, _, _)
candidate_legs(bracket_tickers, orderbooks, side, legs) ==
    IF bracket_tickers = <<>> THEN legs
    ELSE LET ticker == Head(bracket_tickers)
             orderbook == IF ticker \in DOMAIN orderbooks THEN orderbooks[ticker] ELSE NoBook
             best == IF orderbook = NoBook THEN NoBest
                     ELSE best_bid_and_depth(IF side = "yes" THEN orderbook.no
                                             ELSE orderbook.yes)
         IN IF best = NoBest THEN <<>>
            ELSE candidate_legs(Tail(bracket_tickers), orderbooks, side,
                     Append(legs, [ticker |-> ticker, side |-> side,
                                   price_cents |-> Max2(1, Min2(99, 100 - best[1])),
                                   depth |-> best[2]]))

RECURSIVE total_cost(_)
total_cost(legs) ==
    IF legs = <<>> THEN 0 ELSE legs[1].price_cents + total_cost(Tail(legs))

RECURSIVE total_fees(_)
total_fees(legs) ==
    IF legs = <<>> THEN 0 ELSE taker_fee(legs[1].price_cents) + total_fees(Tail(legs))

min_depth(legs) ==
    CHOOSE d \in {legs[i].depth : i \in DOMAIN legs} :
        \A i \in DOMAIN legs : d <= legs[i].depth

(* the end of both candidates, lines 105-125 and 165-186; fee_test is the  *)
(* test of lines 112 and 173                                                *)
opportunity(arb_type, legs, payout, fee_test) ==
    IF legs = <<>> \/ total_cost(legs) >= payout THEN NoCandidate
    ELSE LET max_sets == Max2(0, min_depth(legs))
             profit_cents == payout - total_cost(legs)
             profit_after_fees_per_set == profit_cents - total_fees(legs)
         IN IF max_sets <= 0 \/ (fee_test /\ profit_after_fees_per_set <= 0)
            THEN NoCandidate
            ELSE [arb_type |-> arb_type, legs |-> legs,
                  cost_cents |-> total_cost(legs), payout_cents |-> payout,
                  profit_cents |-> profit_cents, max_sets |-> max_sets,
                  total_profit_cents |-> profit_cents * max_sets,
                  profit_after_fees_cents |-> profit_after_fees_per_set * max_sets]

(* faulty variant: the profit is not tested after the fees *)
all_yes_candidate_before_fees(bracket_tickers, orderbooks) ==
    opportunity("all_yes", candidate_legs(bracket_tickers, orderbooks, "yes", <<>>), 100, FALSE)

(* _all_yes_candidate, lines 70-125 *)
all_yes_candidate(bracket_tickers, orderbooks) ==
    opportunity("all_yes", candidate_legs(bracket_tickers, orderbooks, "yes", <<>>), 100, TRUE)

(* _all_no_candidate, lines 128-186 *)
all_no_candidate(bracket_tickers, orderbooks) ==
    IF Len(bracket_tickers) < 2 THEN NoCandidate
    ELSE opportunity("all_no", candidate_legs(bracket_tickers, orderbooks, "no", <<>>),
                     (Len(bracket_tickers) - 1) * 100, TRUE)

(* ticker.strip().upper() *)
strip_upper(ticker) ==
    CASE ticker = "b2 " -> "B2"
      [] ticker = "kxbtc15m-a " -> "KXBTC15M-A"
      [] ticker = " " -> ""
      [] OTHER -> ticker

RECURSIVE bracket_list(_)
bracket_list(bracket_tickers) ==
    IF bracket_tickers = <<>> THEN <<>>
    ELSE (IF strip_upper(Head(bracket_tickers)) = "" THEN <<>>
          ELSE <<strip_upper(Head(bracket_tickers))>>)
         \o bracket_list(Tail(bracket_tickers))

(* scan_bracket_arbitrage, lines 189-227: the better of the two candidates *)
(* that clear min_profit_after_fees_cents, all_yes first on a tie           *)
scan_bracket_arbitrage(bracket_tickers, orderbooks, min_profit_after_fees_cents) ==
    LET tickers == bracket_list(bracket_tickers)
        all_yes == all_yes_candidate(tickers, orderbooks)
        all_no == all_no_candidate(tickers, orderbooks)
        valid(candidate) == /\ candidate # NoCandidate
                            /\ candidate.profit_after_fees_cents > min_profit_after_fees_cents
    IN IF Len(tickers) < 2 THEN NoCandidate
       ELSE IF valid(all_yes) /\ valid(all_no)
       THEN (IF all_no.profit_after_fees_cents > all_yes.profit_after_fees_cents
             THEN all_no ELSE all_yes)
       ELSE IF valid(all_yes) THEN all_yes
       ELSE IF valid(all_no) THEN all_no
       ELSE NoCandidate

(* the inputs: price levels as [price, quantity] rows, in any order, with  *)
(* quantities of zero and prices beyond 99 among them; a side that is      *)
(* absent from the book counts as an empty list (line 35)                   *)
LevelLists ==
    {<<>>,
     <<<<57, 2>>>>,
     <<<<60, 1>>, <<70, 1>>, <<70, 2>>>>,
     <<<<80, 0>>, <<45, 3>>>>,
     <<<<150, 1>>>>}
ScanBooks == [yes : LevelLists, no : LevelLists]
ScanTickers == <<"B1", "b2 ", "B3", "B4">>
BracketLists ==
    {SubSeq(ScanTickers, 1, n) : n \in 1 .. MaxBrackets} \cup {<<"B1", " ">>, <<"B1", " ", "B3">>}
MinProfits == {-100, 0}

ScanReady(bracket_tickers, orderbooks) ==
    scan = [pc |-> "ready", bracket_tickers |-> bracket_tickers, orderbooks |-> orderbooks]

(* pipeline.py _scan_bracket_arbitrage calls the scan once per event *)
ScanCall ==
    /\ scan.pc = "ready"
    /\ \E min_profit_after_fees_cents \in MinProfits :
          scan' = [pc |-> "returned", bracket_tickers |-> scan.bracket_tickers,
                   orderbooks |-> scan.orderbooks,
                   min_profit_after_fees_cents |-> min_profit_after_fees_cents,
                   result |-> scan_bracket_arbitrage(scan.bracket_tickers, scan.orderbooks,
                                                     min_profit_after_fees_cents)]

(* ------------ lifecycle auto-subscribe (async_runtime.py) -------------- *)
MaxLifecycle == 3

NoLifecycle == [pc |-> "none"]
LifecycleIdle == lifecycle = NoLifecycle

(* tickers of market_lifecycle_v2 messages: two spellings of one BTC 15m   *)
(* market, another BTC 15m market, a weather market, and none              *)
LifecycleTickers == {"KXBTC15M-A", "kxbtc15m-a ", "KXBTC15M-B", "KXHIGHNY-A", ""}

(* normalized.startswith("KXBTC15M") *)
startswith_KXBTC15M(normalized) == normalized \in {"KXBTC15M-A", "KXBTC15M-B"}

(* AsyncRuntime.__init__ with a Kalshi feed whose manager is connected;    *)
(* subscriptions is the market part of the manager's replay list           *)
LifecycleStart ==
    [pc |-> "get", subscribed_tickers |-> {}, lifecycle_queue |-> <<>>,
     subscriptions |-> <<>>, socket |-> "open", ticker |-> "", messages |-> 0]

(* _on_lifecycle_market, lines 52-66: the queue after the callback *)
on_lifecycle_market(ticker) ==
    LET normalized == strip_upper(ticker)
    IN IF \/ ticker = ""
          \/ normalized = ""
          \/ ~startswith_KXBTC15M(normalized)
          \/ normalized \in lifecycle.subscribed_tickers
       THEN lifecycle.lifecycle_queue
       ELSE Append(lifecycle.lifecycle_queue, normalized)

(* KalshiFeed._handle_lifecycle (kalshi_feed.py:185-193) calls the         *)
(* callback of the runtime for a message that names a ticker               *)
HandleLifecycle ==
    /\ lifecycle.pc # "none"
    /\ lifecycle.socket = "open"
    /\ lifecycle.messages < MaxLifecycle
    /\ \E ticker \in LifecycleTickers :
          lifecycle' = [lifecycle EXCEPT
              !.messages = @ + 1,
              !.lifecycle_queue = on_lifecycle_market(ticker)]

(* lifecycle_subscriber_loop, lines 90-97, and WSManager.subscribe, lines  *)
(* 67-72: a ticker is taken from the queue and, unless subscribed, its     *)
(* payload is buffered and the send begins                                 *)
LifecycleSubscribe ==
    /\ lifecycle.pc = "get"
    /\ lifecycle.lifecycle_queue # <<>>
    /\ LET ticker == Head(lifecycle.lifecycle_queue)
       IN IF ticker \in lifecycle.subscribed_tickers
          THEN lifecycle' = [lifecycle EXCEPT !.lifecycle_queue = Tail(@)]
          ELSE lifecycle' = [lifecycle EXCEPT
                   !.lifecycle_queue = Tail(@),
                   !.subscriptions = Append(@, ticker),
                   !.ticker = ticker,
                   !.pc = "send"]

(* WSManager.subscribe, line 73, and lifecycle_subscriber_loop, lines      *)
(* 98-101: the send returns and the ticker counts as subscribed, or the    *)
(* send raises on a closed socket and the loop logs the failure            *)
LifecycleSent ==
    /\ lifecycle.pc = "send"
    /\ lifecycle' = [lifecycle EXCEPT
           !.pc = "get",
           !.ticker = "",
           !.subscribed_tickers =
               IF lifecycle.socket = "open" THEN @ \cup {lifecycle.ticker} ELSE @]

(* the socket of the Kalshi manager fails; run() has not yet replaced it *)
LifecycleSocketLost ==
    /\ lifecycle.pc # "none"
    /\ lifecycle.socket = "open"
    /\ lifecycle' = [lifecycle EXCEPT !.socket = "closed"]

(* WSManager.run reconnects and connect() replays the list as it is *)
LifecycleReconnected ==
    /\ lifecycle.pc # "none"
    /\ lifecycle.socket = "closed"
    /\ lifecycle' = [lifecycle EXCEPT !.socket = "open"]

OpsIdle ==
    /\ CycleIdle
    /\ RuntimeIdle
    /\ ScanIdle

ThreadsIdle ==
    /\ ReaderIdle
    /\ StoreIdle
    /\ LifecycleIdle

(* ======================= specifications ======================= *)

(* every service outside the engine is idle *)
ServicesIdle ==
    /\ FeedIdle
    /\ AlertsIdle
    /\ OpsIdle
    /\ ThreadsIdle


(* the engine alone, called with any arguments *)
CoreIdle ==
    /\ EngineInit
    /\ trade_settings = FixedSettings
    /\ PipelineInit(SettingsFromEnv("custom", "true"))
    /\ tick = NoTick
    /\ maker = NoMakerCall
    /\ WSIdle

Init ==
    /\ CoreIdle
    /\ ServicesIdle

Next ==
    \/ Tick /\ UNCHANGED <<modeVars, pipelineVars, makerVars, wsVars, serviceVars>>
    \/ ExecuteBegin /\ UNCHANGED <<modeVars, pipelineVars, makerVars, wsVars, serviceVars>>
    \/ ExecuteStep /\ UNCHANGED <<modeVars, pipelineVars, makerVars, wsVars, serviceVars>>
    \/ ExecuteEnd /\ UNCHANGED <<modeVars, pipelineVars, makerVars, wsVars, serviceVars>>
    \/ ReconcileBegin /\ UNCHANGED <<modeVars, pipelineVars, makerVars, wsVars, serviceVars>>
    \/ ReconcileStatus /\ UNCHANGED <<modeVars, pipelineVars, makerVars, wsVars, serviceVars>>
    \/ ReconcileQueueFetch /\ UNCHANGED <<modeVars, pipelineVars, makerVars, wsVars, serviceVars>>
    \/ ReconcileQueue /\ UNCHANGED <<modeVars, pipelineVars, makerVars, wsVars, serviceVars>>
    \/ ReconcileEnd /\ UNCHANGED <<modeVars, pipelineVars, makerVars, wsVars, serviceVars>>

Spec == Init /\ [][Next]_vars

(* the mode state machine alone, driven by the operator's commands *)
InitMode ==
    /\ EngineInit
    /\ trade_settings = FixedSettings
    /\ paper_trading_mode = "kalshi_demo"
    /\ \E bot_mode \in Modes : \E env_enabled \in EnvEnabled :
          PipelineInit(SettingsFromEnv(bot_mode, env_enabled))
    /\ tick = NoTick
    /\ maker = NoMakerCall
    /\ WSIdle
    /\ ServicesIdle

NextMode ==
    \/ RequestModeChange /\ UNCHANGED <<engineVars, pipelineVars, makerVars, wsVars, serviceVars>>
    \/ ConfirmLiveMode /\ UNCHANGED <<engineVars, pipelineVars, makerVars, wsVars, serviceVars>>
    \/ SetPaused /\ UNCHANGED <<engineVars, pipelineVars, makerVars, wsVars, serviceVars>>

SpecMode == InitMode /\ [][NextMode]_vars

(* the pipeline: ticks of both kinds and the operator's commands *)
InitPipeline ==
    /\ EngineInit
    /\ trade_settings = FixedSettings
    /\ \E bot_mode \in {"demo_safe", "live_safe", "live_auto"} :
          PipelineInit(SettingsFromEnv(bot_mode, "unset"))
    /\ tick = NoTick
    /\ maker = NoMakerCall
    /\ WSIdle
    /\ ServicesIdle

NextPipeline ==
    \/ NextTick /\ UNCHANGED <<makerVars, wsVars, serviceVars>>
    \/ RunOnceBegin /\ UNCHANGED <<makerVars, wsVars, serviceVars>>
    \/ RunOnceTrade /\ UNCHANGED <<makerVars, wsVars, serviceVars>>
    \/ RunOnceReconcile /\ UNCHANGED <<makerVars, wsVars, serviceVars>>
    \/ RealtimeCycle /\ UNCHANGED <<makerVars, wsVars, serviceVars>>
    \/ EngineStep /\ UNCHANGED <<makerVars, wsVars, serviceVars>>
    \/ OperatorCommand /\ UNCHANGED <<makerVars, wsVars, serviceVars>>

SpecPipeline == InitPipeline /\ [][NextPipeline]_vars

(* execute alone, with Kelly sizing and arbitrage opportunities *)
InitExecute ==
    /\ EngineInit
    /\ trade_settings \in TradeSettings
    /\ PipelineInit(SettingsFromEnv("custom", "true"))
    /\ tick = NoTick
    /\ maker = NoMakerCall
    /\ WSIdle
    /\ ServicesIdle

NextExecute ==
    \/ Tick /\ UNCHANGED <<modeVars, pipelineVars, makerVars, wsVars, serviceVars>>
    \/ ExecuteBeginSized /\ UNCHANGED <<modeVars, pipelineVars, makerVars, wsVars, serviceVars>>
    \/ ExecuteArbitrage /\ UNCHANGED <<modeVars, pipelineVars, makerVars, wsVars, serviceVars>>
    \/ ExecuteStep /\ UNCHANGED <<modeVars, pipelineVars, makerVars, wsVars, serviceVars>>
    \/ ExecuteEnd /\ UNCHANGED <<modeVars, pipelineVars, makerVars, wsVars, serviceVars>>

SpecExecute == InitExecute /\ [][NextExecute]_vars

(* _maker_price_for_side alone, called once with any arguments *)
InitMaker ==
    /\ EngineInit
    /\ trade_settings = FixedSettings
    /\ paper_trading_mode = "kalshi_demo"
    /\ PipelineInit(SettingsFromEnv("custom", "true"))
    /\ tick = NoTick
    /\ \E side \in {"yes", "no"} : \E bid \in Quotes : \E ask \in Quotes :
       \E maker_only \in BOOLEAN : \E lo \in PriceLimits : \E hi \in PriceLimits :
          maker = MakerCall(side, bid, ask, maker_only, lo, hi)
    /\ WSIdle
    /\ ServicesIdle

NextMaker ==
    \/ MakerPriceCall /\ UNCHANGED <<engineVars, modeVars, pipelineVars, wsVars, serviceVars>>

SpecMaker == InitMaker /\ [][NextMaker]_vars

(* a WSManager alone: run(), the network, and the callers of subscribe and close *)
InitWS ==
    /\ EngineInit
    /\ trade_settings = FixedSettings
    /\ paper_trading_mode = "kalshi_demo"
    /\ PipelineInit(SettingsFromEnv("custom", "true"))
    /\ tick = NoTick
    /\ maker = NoMakerCall
    /\ \E reconnect_delay \in ReconnectDelayArgs :
          \E reconnect_max_delay \in ReconnectMaxDelayArgs :
             WSManagerInit(reconnect_delay, reconnect_max_delay)
    /\ wire = NoWire
    /\ ServicesIdle

NextWS ==
    \/ WSSubscribe /\ UNCHANGED <<engineVars, modeVars, pipelineVars, makerVars, serviceVars>>
    \/ WSRun /\ UNCHANGED <<engineVars, modeVars, pipelineVars, makerVars, serviceVars>>
    \/ WSConnected /\ UNCHANGED <<engineVars, modeVars, pipelineVars, makerVars, serviceVars>>
    \/ WSConnectFailed /\ UNCHANGED <<engineVars, modeVars, pipelineVars, makerVars, serviceVars>>
    \/ WSReplay /\ UNCHANGED <<engineVars, modeVars, pipelineVars, makerVars, serviceVars>>
    \/ WSDispatch /\ UNCHANGED <<engineVars, modeVars, pipelineVars, makerVars, serviceVars>>
    \/ WSConnectionLost /\ UNCHANGED <<engineVars, modeVars, pipelineVars, makerVars, serviceVars>>
    \/ WSCleanup /\ UNCHANGED <<engineVars, modeVars, pipelineVars, makerVars, serviceVars>>
    \/ WSReconnect /\ UNCHANGED <<engineVars, modeVars, pipelineVars, makerVars, serviceVars>>
    \/ WSClose /\ UNCHANGED <<engineVars, modeVars, pipelineVars, makerVars, serviceVars>>

SpecWS == InitWS /\ [][NextWS]_vars

(* run() of one WSManager with its heartbeat task, the network, the hooks, *)
(* and the callers of close and of cancel.  The event loop runs every task *)
(* that can take a step, websockets.connect returns or raises within its   *)
(* open_timeout and the sleeps end: the steps of run() and of the          *)
(* heartbeat are weakly fair.  Nothing makes a message arrive, a ping fail, *)
(* the peer drop the connection, or anybody call close or cancel.          *)
ManagerStep ==
    \/ MgrRun \/ MgrLoop \/ MgrConnected \/ MgrConnectRaised \/ MgrReplay
    \/ MgrHeartbeatStart \/ MgrHeartbeatHook
    \/ MgrListenEnd \/ MgrUnwind \/ MgrErrorHook \/ MgrCleanup \/ MgrReconnect

NextManager ==
    \/ MgrRun /\ UNCHANGED <<engineVars, modeVars, pipelineVars, makerVars, serviceVars>>
    \/ MgrLoop /\ UNCHANGED <<engineVars, modeVars, pipelineVars, makerVars, serviceVars>>
    \/ MgrConnected /\ UNCHANGED <<engineVars, modeVars, pipelineVars, makerVars, serviceVars>>
    \/ MgrConnectRaised /\ UNCHANGED <<engineVars, modeVars, pipelineVars, makerVars, serviceVars>>
    \/ MgrReplay /\ UNCHANGED <<engineVars, modeVars, pipelineVars, makerVars, serviceVars>>
    \/ MgrHeartbeatStart /\ UNCHANGED <<engineVars, modeVars, pipelineVars, makerVars, serviceVars>>
    \/ MgrHeartbeatPing /\ UNCHANGED <<engineVars, modeVars, pipelineVars, makerVars, serviceVars>>
    \/ MgrHeartbeatHook /\ UNCHANGED <<engineVars, modeVars, pipelineVars, makerVars, serviceVars>>
    \/ MgrMessage /\ UNCHANGED <<engineVars, modeVars, pipelineVars, makerVars, serviceVars>>
    \/ MgrConnectionLost /\ UNCHANGED <<engineVars, modeVars, pipelineVars, makerVars, serviceVars>>
    \/ MgrListenEnd /\ UNCHANGED <<engineVars, modeVars, pipelineVars, makerVars, serviceVars>>
    \/ MgrUnwind /\ UNCHANGED <<engineVars, modeVars, pipelineVars, makerVars, serviceVars>>
    \/ MgrErrorHook /\ UNCHANGED <<engineVars, modeVars, pipelineVars, makerVars, serviceVars>>
    \/ MgrCleanup /\ UNCHANGED <<engineVars, modeVars, pipelineVars, makerVars, serviceVars>>
    \/ MgrReconnect /\ UNCHANGED <<engineVars, modeVars, pipelineVars, makerVars, serviceVars>>
    \/ MgrClose /\ UNCHANGED <<engineVars, modeVars, pipelineVars, makerVars, serviceVars>>
    \/ MgrCancel /\ UNCHANGED <<engineVars, modeVars, pipelineVars, makerVars, serviceVars>>

SpecManager == InitWS /\ [][NextManager]_vars /\ WF_wsVars(ManagerStep)

(* a KalshiFeed alone, and the messages its manager hands to _on_message *)
InitFeed ==
    /\ CoreIdle
    /\ ThreadsIdle
    /\ FeedIdle
    /\ AlertsIdle
    /\ OpsIdle

NextFeed ==
    \/ FeedSnapshot /\ UNCHANGED <<engineVars, modeVars, pipelineVars, makerVars, wsVars, alertVars, opsVars, threadVars>>
    \/ FeedDelta /\ UNCHANGED <<engineVars, modeVars, pipelineVars, makerVars, wsVars, alertVars, opsVars, threadVars>>
    \/ FeedTicker /\ UNCHANGED <<engineVars, modeVars, pipelineVars, makerVars, wsVars, alertVars, opsVars, threadVars>>
    \/ FeedLifecycle /\ UNCHANGED <<engineVars, modeVars, pipelineVars, makerVars, wsVars, alertVars, opsVars, threadVars>>

SpecFeed == InitFeed /\ [][NextFeed]_vars

(* the alert filter with its two callers, each in its own thread *)
InitAlerts ==
    /\ CoreIdle
    /\ ThreadsIdle
    /\ FeedIdle
    /\ AlertsIdle
    /\ OpsIdle

NextAlerts ==
    \/ AlertClock /\ UNCHANGED <<engineVars, modeVars, pipelineVars, makerVars, wsVars, feedVars, opsVars, threadVars>>
    \/ PollTickBegin /\ UNCHANGED <<engineVars, modeVars, pipelineVars, makerVars, wsVars, feedVars, opsVars, threadVars>>
    \/ PollFilter /\ UNCHANGED <<engineVars, modeVars, pipelineVars, makerVars, wsVars, feedVars, opsVars, threadVars>>
    \/ HealthFilter /\ UNCHANGED <<engineVars, modeVars, pipelineVars, makerVars, wsVars, feedVars, opsVars, threadVars>>
    \/ (\E caller \in Callers : FilterGcScan(caller)) /\ UNCHANGED <<engineVars, modeVars, pipelineVars, makerVars, wsVars, feedVars, opsVars, threadVars>>
    \/ (\E caller \in Callers : FilterGcPop(caller)) /\ UNCHANGED <<engineVars, modeVars, pipelineVars, makerVars, wsVars, feedVars, opsVars, threadVars>>
    \/ (\E caller \in Callers : FilterGet(caller)) /\ UNCHANGED <<engineVars, modeVars, pipelineVars, makerVars, wsVars, feedVars, opsVars, threadVars>>
    \/ (\E caller \in Callers : FilterCheck(caller)) /\ UNCHANGED <<engineVars, modeVars, pipelineVars, makerVars, wsVars, feedVars, opsVars, threadVars>>

SpecAlerts == InitAlerts /\ [][NextAlerts]_vars

(* one run_once tick under any settings *)
InitRunOnce ==
    /\ CoreIdle
    /\ ThreadsIdle
    /\ FeedIdle
    /\ AlertsIdle
    /\ \E settings \in CycleSettings : cycle = CycleStart(settings)
    /\ RuntimeIdle
    /\ ScanIdle

NextRunOnce ==
    \/ RunOnceListMarkets /\ UNCHANGED <<engineVars, modeVars, pipelineVars, makerVars, wsVars, feedVars, alertVars, runtime, scan, threadVars>>
    \/ RunOnceNoMarkets /\ UNCHANGED <<engineVars, modeVars, pipelineVars, makerVars, wsVars, feedVars, alertVars, runtime, scan, threadVars>>
    \/ RunOnceUpsertMarkets /\ UNCHANGED <<engineVars, modeVars, pipelineVars, makerVars, wsVars, feedVars, alertVars, runtime, scan, threadVars>>
    \/ RunOnceSnapshots /\ UNCHANGED <<engineVars, modeVars, pipelineVars, makerVars, wsVars, feedVars, alertVars, runtime, scan, threadVars>>
    \/ RunOnceBackfill /\ UNCHANGED <<engineVars, modeVars, pipelineVars, makerVars, wsVars, feedVars, alertVars, runtime, scan, threadVars>>
    \/ RunOnceWeather /\ UNCHANGED <<engineVars, modeVars, pipelineVars, makerVars, wsVars, feedVars, alertVars, runtime, scan, threadVars>>
    \/ RunOnceBtc /\ UNCHANGED <<engineVars, modeVars, pipelineVars, makerVars, wsVars, feedVars, alertVars, runtime, scan, threadVars>>
    \/ RunOnceSignals /\ UNCHANGED <<engineVars, modeVars, pipelineVars, makerVars, wsVars, feedVars, alertVars, runtime, scan, threadVars>>
    \/ RunOnceResolution /\ UNCHANGED <<engineVars, modeVars, pipelineVars, makerVars, wsVars, feedVars, alertVars, runtime, scan, threadVars>>
    \/ RunOnceGate /\ UNCHANGED <<engineVars, modeVars, pipelineVars, makerVars, wsVars, feedVars, alertVars, runtime, scan, threadVars>>
    \/ RunOnceExecute /\ UNCHANGED <<engineVars, modeVars, pipelineVars, makerVars, wsVars, feedVars, alertVars, runtime, scan, threadVars>>
    \/ RunOnceReconcileOpenOrders /\ UNCHANGED <<engineVars, modeVars, pipelineVars, makerVars, wsVars, feedVars, alertVars, runtime, scan, threadVars>>
    \/ RunOnceArbPersist /\ UNCHANGED <<engineVars, modeVars, pipelineVars, makerVars, wsVars, feedVars, alertVars, runtime, scan, threadVars>>
    \/ RunOnceAlerting /\ UNCHANGED <<engineVars, modeVars, pipelineVars, makerVars, wsVars, feedVars, alertVars, runtime, scan, threadVars>>
    \/ RunOnceStats /\ UNCHANGED <<engineVars, modeVars, pipelineVars, makerVars, wsVars, feedVars, alertVars, runtime, scan, threadVars>>

SpecRunOnce == InitRunOnce /\ [][NextRunOnce]_vars

(* an AsyncRuntime from run() to its end *)
InitRuntime ==
    /\ CoreIdle
    /\ ThreadsIdle
    /\ FeedIdle
    /\ AlertsIdle
    /\ CycleIdle
    /\ \E kalshi_feed \in BOOLEAN : runtime = RuntimeCreated(kalshi_feed)
    /\ ScanIdle

NextRuntime ==
    \/ RuntimeRun /\ UNCHANGED <<engineVars, modeVars, pipelineVars, makerVars, wsVars, feedVars, alertVars, cycle, scan, threadVars>>
    \/ PollRunOnce /\ UNCHANGED <<engineVars, modeVars, pipelineVars, makerVars, wsVars, feedVars, alertVars, cycle, scan, threadVars>>
    \/ RunOnceReturns /\ UNCHANGED <<engineVars, modeVars, pipelineVars, makerVars, wsVars, feedVars, alertVars, cycle, scan, threadVars>>
    \/ (\E i \in DOMAIN RuntimeTasks : TaskFails(i)) /\ UNCHANGED <<engineVars, modeVars, pipelineVars, makerVars, wsVars, feedVars, alertVars, cycle, scan, threadVars>>
    \/ RuntimeCancelled /\ UNCHANGED <<engineVars, modeVars, pipelineVars, makerVars, wsVars, feedVars, alertVars, cycle, scan, threadVars>>
    \/ RuntimeFinally /\ UNCHANGED <<engineVars, modeVars, pipelineVars, makerVars, wsVars, feedVars, alertVars, cycle, scan, threadVars>>
    \/ RuntimeCloseFeed /\ UNCHANGED <<engineVars, modeVars, pipelineVars, makerVars, wsVars, feedVars, alertVars, cycle, scan, threadVars>>

SpecRuntime == InitRuntime /\ [][NextRuntime]_vars

(* scan_bracket_arbitrage alone, called once with any books *)
InitScan ==
    /\ CoreIdle
    /\ ThreadsIdle
    /\ FeedIdle
    /\ AlertsIdle
    /\ CycleIdle
    /\ RuntimeIdle
    /\ \E bracket_tickers \in BracketLists :
          \E orderbooks \in [{"B1", "B2", "B3", "B4"} \cap {strip_upper(bracket_tickers[i]) : i \in DOMAIN bracket_tickers} -> ScanBooks \cup {NoBook}] :
              ScanReady(bracket_tickers, orderbooks)

NextScan ==
    \/ ScanCall /\ UNCHANGED <<engineVars, modeVars, pipelineVars, makerVars, wsVars, feedVars, alertVars, cycle, runtime, threadVars>>

SpecScan == InitScan /\ [][NextScan]_vars

(* a feed handler in the event loop and a reader in the poll thread *)
InitReader ==
    /\ CoreIdle
    /\ FeedIdle
    /\ AlertsIdle
    /\ OpsIdle
    /\ reader = ReaderStart
    /\ StoreIdle
    /\ LifecycleIdle

NextReader ==
    \/ HandleBegin /\ UNCHANGED <<engineVars, modeVars, pipelineVars, makerVars, wsVars, feedVars, alertVars, opsVars, store, lifecycle>>
    \/ HandleSide /\ UNCHANGED <<engineVars, modeVars, pipelineVars, makerVars, wsVars, feedVars, alertVars, opsVars, store, lifecycle>>
    \/ HandleSeq /\ UNCHANGED <<engineVars, modeVars, pipelineVars, makerVars, wsVars, feedVars, alertVars, opsVars, store, lifecycle>>
    \/ HandleRefreshBestPrices /\ UNCHANGED <<engineVars, modeVars, pipelineVars, makerVars, wsVars, feedVars, alertVars, opsVars, store, lifecycle>>
    \/ GetOrderbook /\ UNCHANGED <<engineVars, modeVars, pipelineVars, makerVars, wsVars, feedVars, alertVars, opsVars, store, lifecycle>>
    \/ ReadSide /\ UNCHANGED <<engineVars, modeVars, pipelineVars, makerVars, wsVars, feedVars, alertVars, opsVars, store, lifecycle>>

SpecReader == InitReader /\ [][NextReader]_vars

(* the store called from the poll thread and the two loops *)
InitStore ==
    /\ CoreIdle
    /\ FeedIdle
    /\ AlertsIdle
    /\ OpsIdle
    /\ ReaderIdle
    /\ store = StoreOpen
    /\ LifecycleIdle

NextStore ==
    \/ InsertPaperTradeOrders /\ UNCHANGED <<engineVars, modeVars, pipelineVars, makerVars, wsVars, feedVars, alertVars, opsVars, reader, lifecycle>>
    \/ InsertOrderRow /\ UNCHANGED <<engineVars, modeVars, pipelineVars, makerVars, wsVars, feedVars, alertVars, opsVars, reader, lifecycle>>
    \/ InsertOrderEventRow /\ UNCHANGED <<engineVars, modeVars, pipelineVars, makerVars, wsVars, feedVars, alertVars, opsVars, reader, lifecycle>>
    \/ (\E caller \in StoreCallers : InsertAlertEvents(caller)) /\ UNCHANGED <<engineVars, modeVars, pipelineVars, makerVars, wsVars, feedVars, alertVars, opsVars, reader, lifecycle>>
    \/ (\E caller \in StoreCallers : InsertAlertRow(caller)) /\ UNCHANGED <<engineVars, modeVars, pipelineVars, makerVars, wsVars, feedVars, alertVars, opsVars, reader, lifecycle>>
    \/ (\E caller \in StoreCallers : StoreCommit(caller)) /\ UNCHANGED <<engineVars, modeVars, pipelineVars, makerVars, wsVars, feedVars, alertVars, opsVars, reader, lifecycle>>

SpecStore == InitStore /\ [][NextStore]_vars

(* the engine alone, with store operations that may raise *)
NextRaising ==
    \/ Tick /\ UNCHANGED <<modeVars, pipelineVars, makerVars, wsVars, serviceVars>>
    \/ ExecuteBegin /\ UNCHANGED <<modeVars, pipelineVars, makerVars, wsVars, serviceVars>>
    \/ ExecuteStep /\ UNCHANGED <<modeVars, pipelineVars, makerVars, wsVars, serviceVars>>
    \/ ExecuteRaises /\ UNCHANGED <<modeVars, pipelineVars, makerVars, wsVars, serviceVars>>
    \/ ExecuteEnd /\ UNCHANGED <<modeVars, pipelineVars, makerVars, wsVars, serviceVars>>
    \/ ReconcileBegin /\ UNCHANGED <<modeVars, pipelineVars, makerVars, wsVars, serviceVars>>
    \/ ReconcileStatus /\ UNCHANGED <<modeVars, pipelineVars, makerVars, wsVars, serviceVars>>
    \/ ReconcileQueueFetch /\ UNCHANGED <<modeVars, pipelineVars, makerVars, wsVars, serviceVars>>
    \/ ReconcileQueue /\ UNCHANGED <<modeVars, pipelineVars, makerVars, wsVars, serviceVars>>
    \/ ReconcileRaises /\ UNCHANGED <<modeVars, pipelineVars, makerVars, wsVars, serviceVars>>
    \/ ReconcileEnd /\ UNCHANGED <<modeVars, pipelineVars, makerVars, wsVars, serviceVars>>

SpecRaising == Init /\ [][NextRaising]_vars

(* the lifecycle auto-subscribe over a socket that fails and comes back *)
InitLifecycle ==
    /\ CoreIdle
    /\ FeedIdle
    /\ AlertsIdle
    /\ OpsIdle
    /\ ReaderIdle
    /\ StoreIdle
    /\ lifecycle = LifecycleStart

NextLifecycle ==
    \/ HandleLifecycle /\ UNCHANGED <<engineVars, modeVars, pipelineVars, makerVars, wsVars, feedVars, alertVars, opsVars, reader, store>>
    \/ LifecycleSubscribe /\ UNCHANGED <<engineVars, modeVars, pipelineVars, makerVars, wsVars, feedVars, alertVars, opsVars, reader, store>>
    \/ LifecycleSent /\ UNCHANGED <<engineVars, modeVars, pipelineVars, makerVars, wsVars, feedVars, alertVars, opsVars, reader, store>>
    \/ LifecycleSocketLost /\ UNCHANGED <<engineVars, modeVars, pipelineVars, makerVars, wsVars, feedVars, alertVars, opsVars, reader, store>>
    \/ LifecycleReconnected /\ UNCHANGED <<engineVars, modeVars, pipelineVars, makerVars, wsVars, feedVars, alertVars, opsVars, reader, store>>

SpecLifecycle == InitLifecycle /\ [][NextLifecycle]_vars

(* ======================= properties ======================= *)

Returned(call) == pc = "idle" /\ trace.call = call /\ phase # "start"

(* the event rows appended since the running / last call began *)
EventsOfCall == {k \in 1..Len(events) : k > trace.events_before}

EventsOfCallFor(order_id) == {k \in EventsOfCall : events[k].order_id = order_id}

RepricesBefore(market_ticker, position) ==
    {k \in 1..Len(events) :
        /\ k <= position
        /\ events[k].market_ticker = market_ticker
        /\ events[k].status = "reprice_submitted"}

CanceledForReprice(i) ==
    /\ orders[i].status = "canceled"
    /\ orders[i].reason = "queue_reprice_cancel"
    /\ \E n \in 1..Len(trace.cancels) : trace.cancels[n].order_id = i

(* C2: whenever reconcile_open_orders cancels an order for reprice, the    *)
(* same call submits a replacement for the same ticker and side at the     *)
(* current maker price.                                                    *)
C2_CancelHasReplacement ==
    Returned("reconcile") =>
        \A i \in 1..Len(orders) :
            CanceledForReprice(i) =>
                \E j \in 1..Len(orders) :
                    /\ j > trace.orders_before
                    /\ orders[j].replaces = i
                    /\ orders[j].market_ticker = orders[i].market_ticker
                    /\ orders[j].side = orders[i].side
                    /\ orders[j].limit_price_cents =
                           MakerPrice(orders[i].side, book[orders[i].market_ticker])

CancelsInside(market_ticker, from_ts, to_ts) ==
    {n \in 1..Len(cancel_log) :
        /\ cancel_log[n].market_ticker = market_ticker
        /\ cancel_log[n].event_ts >= from_ts
        /\ cancel_log[n].event_ts <= to_ts}

(* C3: for every market the reprice cancellations inside any window of     *)
(* reprice_window_seconds number at most reprice_max_per_window, and two   *)
(* successive reprice cancellations of a market are at least               *)
(* reprice_cooldown_seconds apart.                                         *)
C3_RepriceRateLimited ==
    /\ \A t \in Tickers : \A from_ts \in 0..MaxTime :
          Cardinality(CancelsInside(t, from_ts, from_ts + paper_trade_reprice_window_seconds))
              <= paper_trade_reprice_max_per_window
    /\ \A n \in 1..Len(cancel_log) : \A m \in 1..Len(cancel_log) :
          (n < m /\ cancel_log[n].market_ticker = cancel_log[m].market_ticker)
              => cancel_log[m].event_ts - cancel_log[n].event_ts
                     >= paper_trade_reprice_cooldown_seconds

StatusNeverReopens ==
    \A i \in 1..Len(orders) :
        orders[i].status \in TerminalStatuses => orders'[i].status \notin OpenStatuses

LaterEventsIn(allowed) ==
    \A k \in 1..Len(events) : \A j \in 1..Len(events) :
        (/\ k < j
         /\ events[k].order_id = events[j].order_id
         /\ events[k].status \in TerminalStatuses)
            => events[j].status \in allowed

(* C4 as stated: once an order is simulated, failed, filled or canceled,   *)
(* its stored status never returns to submitted or partially_filled and    *)
(* every event appended for it afterwards carries a terminal status.       *)
C4_TerminalIsFinal_Original ==
    [][StatusNeverReopens]_vars /\ [](LaterEventsIn(TerminalStatuses))

(* C4 amended: once an order is simulated, failed, filled or canceled, its *)
(* stored status never returns to submitted or partially_filled, and every *)
(* event appended for it afterwards carries a terminal status or is the    *)
(* reprice_submitted event recorded under its id after its reprice cancel. *)
C4_TerminalIsFinal ==
    [][StatusNeverReopens]_vars
    /\ [](LaterEventsIn(TerminalStatuses \cup {"reprice_submitted"}))

(* an order went terminal in a call that fetched its status, and a call    *)
(* ran after that                                                          *)
C4_Witness ==
    /\ reconciles = 2
    /\ Returned("reconcile")
    /\ \E i \in 1..Len(orders) :
          /\ orders[i].status \in {"filled", "canceled"}
          /\ orders[i].external_order_id # None
          /\ orders[i].created_at < now

(* C5: every stored order's status is one of simulated, submitted,         *)
(* partially_filled, filled, canceled, failed, whatever raw status the     *)
(* exchange returns.                                                       *)
C5_StatusInDomain ==
    \A i \in 1..Len(orders) : orders[i].status \in OrderStatuses

(* C6: if the status fetched for an open order normalizes to filled,       *)
(* canceled or failed, the stored status equals it after the call.         *)
C6_TerminalStatusStored ==
    Returned("reconcile") =>
        \A n \in 1..Len(trace.fetched) :
            LET f == trace.fetched[n]
            IN (~f.raised /\ f.reported \in {"filled", "canceled", "failed"})
                   => orders[f.order_id].status = f.reported

(* C7: an order that is open before and after a reconcile_open_orders call *)
(* gets at most one new event from that call.                              *)
C7_AtMostOneEvent ==
    Returned("reconcile") =>
        \A i \in 1..Len(trace.status_before) :
            (trace.status_before[i] \in OpenStatuses /\ orders[i].status \in OpenStatuses)
                => Cardinality(EventsOfCallFor(i)) <= 1

FailureHandled(i) ==
    /\ \E k \in EventsOfCallFor(i) : events[k].status = "status_check_failed"
    /\ orders[i].status = trace.status_before[i]
    /\ \A n \in 1..Len(trace.cancels) : trace.cancels[n].order_id # i

(* C8: when the status fetch or the queue-positions fetch raises, a        *)
(* status_check_failed event is appended for each affected order, its      *)
(* stored status is unchanged and no cancel is issued for it in that call. *)
C8_FetchFailureHandled ==
    Returned("reconcile") =>
        /\ \A n \in 1..Len(trace.fetched) :
              trace.fetched[n].raised => FailureHandled(trace.fetched[n].order_id)
        /\ trace.queue_raised =>
              \A n \in 1..Len(trace.kept) : FailureHandled(trace.kept[n])

RaisedAttempts == {k \in 1..Len(trace.attempts) : trace.attempts[k].response = "raise"}

(* C9: in sandbox mode a placement that raises gives exactly one order     *)
(* with status failed and the exception text as reason, is counted in      *)
(* paper_orders_failed, is not attempted again in the same call, and the   *)
(* remaining candidates are still visited.                                 *)
C9_FailedPlacementRecorded ==
    (Returned("execute") /\ paper_trading_mode = "kalshi_demo") =>
        /\ Len(orders) = trace.orders_before + Len(trace.attempts)
        /\ \A k \in RaisedAttempts :
              /\ orders[trace.orders_before + k].status = "failed"
              /\ orders[trace.orders_before + k].reason = "exception_text"
              /\ orders[trace.orders_before + k].market_ticker =
                     Candidates(signals)[trace.attempts[k].candidate].market_ticker
              /\ orders[trace.orders_before + k].direction =
                     Candidates(signals)[trace.attempts[k].candidate].direction
              /\ Cardinality({j \in 1..Len(trace.attempts) :
                     trace.attempts[j].candidate = trace.attempts[k].candidate}) = 1
        /\ stats.paper_orders_failed = Cardinality(RaisedAttempts)
        /\ \/ trace.visited = Len(Candidates(signals))
           \/ stats.paper_orders_attempted >= paper_trade_max_orders_per_cycle

(* a placement raised and the candidate after it was visited               *)
C9_Witness ==
    /\ Returned("execute")
    /\ paper_trading_mode = "kalshi_demo"
    /\ \E k \in RaisedAttempts : trace.visited > trace.attempts[k].candidate

(* C10: no two signal-driven orders for the same (ticker, direction) are   *)
(* created less than cooldown_minutes apart, across calls and within one.  *)
C10_CooldownBetweenOrders ==
    \A i \in 1..Len(orders) : \A j \in 1..Len(orders) :
        (/\ i < j
         /\ orders[i].replaces = 0 /\ orders[j].replaces = 0
         /\ orders[i].market_ticker = orders[j].market_ticker
         /\ orders[i].direction = orders[j].direction)
            => orders[j].created_at - orders[i].created_at >= paper_trade_cooldown_minutes

(* ---------------- mode state machine ---------------- *)

ConfirmStep == commands'.count = commands.count + 1 /\ commands'.last = "confirm"

LiveRequestStep ==
    /\ commands'.count = commands.count + 1
    /\ commands'.last = "mode"
    /\ commands'.last_request \in LiveModes

ModeGoesLive == runtime_mode' \in LiveModes /\ runtime_mode' # runtime_mode

TwoPhaseStep ==
    /\ ModeGoesLive => (ConfirmStep /\ runtime_mode' = commands.last_request)
    /\ LiveRequestStep => UNCHANGED <<runtime_mode, runtime_auto_trading_enabled>>

(* C12: runtime_mode changes to live_safe or live_auto only in a           *)
(* confirm_live_mode step, and then to the live mode most recently         *)
(* requested with no non-live mode request in between; a live request by   *)
(* itself leaves runtime_mode and the auto-trading flag unchanged.         *)
C12_LiveIsTwoPhase == [][TwoPhaseStep]_vars

(* a confirmed live mode after a live request *)
C12_Witness ==
    /\ commands.last = "confirm"
    /\ commands.last_request = "live_auto"
    /\ runtime_mode = "live_auto"
    /\ bot_settings.bot_mode # "live_auto"

(* C13: runtime_mode = live_safe implies auto-trading is disabled and      *)
(* runtime_mode = live_auto implies auto-trading is enabled, from the      *)
(* initial state taken from the settings on.                               *)
C13_ModeFixesAutoTrading ==
    /\ runtime_mode = "live_safe" => ~runtime_auto_trading_enabled
    /\ runtime_mode = "live_auto" => runtime_auto_trading_enabled

(* ---- maker pricing ---- *)

MakerReturned == maker.side # "none" /\ maker.price # NotReturned

(* the highest price that does not take liquidity, as the book stands *)
Ceiling(bid, ask) == IF ask - bid <= 1 THEN bid ELSE ask - 1

(* C17: with maker_only and min_price_cents <= max_price_cents,            *)
(* _maker_price_for_side returns none or a price p with                    *)
(* min_price_cents <= p <= max_price_cents and, when an ask is present,    *)
(* p <= ceiling, ceiling = bid if ask - bid <= 1 and ask - 1 otherwise;    *)
(* it returns none whenever the chosen side's bid is absent.               *)
C17_MakerPriceWithinLimits ==
    (MakerReturned /\ maker.maker_only
        /\ maker.min_price_cents <= maker.max_price_cents)
    => /\ maker.bid = None => maker.price = None
       /\ maker.price # None =>
            /\ maker.min_price_cents <= maker.price
            /\ maker.price <= maker.max_price_cents
            /\ maker.ask # None => maker.price <= Ceiling(maker.bid, maker.ask)

(* a price raised to min_price_cents, above bid + 1 and under the ceiling *)
C17_Witness ==
    /\ MakerReturned /\ maker.maker_only
    /\ maker.min_price_cents < maker.max_price_cents
    /\ maker.bid # None /\ maker.ask # None
    /\ maker.price = maker.min_price_cents
    /\ maker.price > maker.bid + 1
    /\ maker.price < Ceiling(maker.bid, maker.ask)

(* C18: with maker_only and a resting ask on the chosen side, a returned   *)
(* price is strictly below that ask, for every bid and ask in 1..99,       *)
(* locked and crossed books (ask <= bid) included.                         *)
C18_StrictlyBelowAsk ==
    (MakerReturned /\ maker.maker_only /\ maker.ask # None /\ maker.price # None)
    => maker.price < maker.ask

(* ---- WSManager ---- *)

RECURSIVE Pow2(_)
Pow2(n) == IF n <= 0 THEN 1 ELSE 2 * Pow2(n - 1)

(* C19: the wait before the k-th consecutive reconnect attempt (k >= 1, no *)
(* successful connect in between) is                                        *)
(* min(reconnect_delay * 2^(k-1), reconnect_max_delay); after a successful *)
(* connect the next wait is reconnect_delay again; the wait always lies in *)
(* [reconnect_delay, reconnect_max_delay].                                 *)
C19_ReconnectBackoff ==
    wire.attempts >= 1
    => /\ wire.wait_seconds = Min2(ws.reconnect_delay * Pow2(wire.attempts - 1),
                                   ws.reconnect_max_delay)
       /\ ws.reconnect_delay <= wire.wait_seconds
       /\ wire.wait_seconds <= ws.reconnect_max_delay

(* the first wait after a connection that followed two failed attempts *)
C19_Witness ==
    /\ wire.sockets >= 1
    /\ wire.waits >= 3
    /\ wire.attempts = 1
    /\ wire.wait_seconds = ws.reconnect_delay
    /\ ws.reconnect_delay < ws.reconnect_max_delay

RECURSIVE IsSubsequence(_, _)
IsSubsequence(s, t) ==
    IF s = <<>> THEN TRUE
    ELSE IF t = <<>> THEN FALSE
    ELSE IF Head(s) = Head(t) THEN IsSubsequence(Tail(s), Tail(t))
    ELSE IsSubsequence(s, Tail(t))

(* C20: after every successful connect or reconnect all buffered           *)
(* subscription payloads are sent on the new socket in the order in which  *)
(* subscribe was called, before any inbound message is dispatched; a       *)
(* subscription made while disconnected is buffered and sent on the next   *)
(* connect.                                                                *)
C20_SubscriptionsReplayed ==
    /\ ws.subscriptions = [n \in 1 .. wire.subscribed |-> n]
    /\ ws.pc = "listen" => IsSubsequence(ws.subscriptions, wire.sent)

(* a message dispatched on a later socket, after subscriptions made        *)
(* before and between the connections were replayed on it                  *)
C20_Witness ==
    /\ ws.pc = "listen"
    /\ wire.sockets >= 2
    /\ wire.dispatched >= 1
    /\ Cardinality(wire.offline) >= 2
    /\ Len(ws.subscriptions) = MaxSubscriptions
    /\ wire.sent = ws.subscriptions

(* ---- arbitrage and sizing in execute ---- *)

(* C15: execute treats each arbitrage opportunity atomically: after the    *)
(* call either every leg of the opportunity has a submitted (or simulated) *)
(* order or no leg has one.                                                *)
C15_ArbitrageIsAtomic ==
    \A k \in 1 .. Len(arb.results) :
       arb.results[k].submitted + arb.results[k].simulated \in {0, arb.results[k].legs}

(* the exposure the k-th order of the call met: the open exposure when the *)
(* call began plus the cost of the orders the call submitted before it     *)
ExposureBefore(k) ==
    OpenExposure(SubSeq(orders, 1, trace.orders_before))
      + SubmittedCost(SubSeq(pending, 1, k - 1))

Headroom(k) ==
    trade_settings.paper_trade_max_portfolio_exposure_dollars * ExposureScale
      - ExposureBefore(k)

(* C16: in Kelly sizing mode every signal-driven order of execute costs    *)
(* (count times price) at most max_position_dollars and at most the        *)
(* headroom max_portfolio_exposure_dollars minus current exposure, the     *)
(* open exposure at the start of the call plus the cost of the orders      *)
(* already submitted in the call; with zero headroom no order is sized.    *)
C16_KellyOrderWithinLimits ==
    (trace.call = "execute" /\ trade_settings.paper_trade_sizing_mode = "kelly")
    => \A k \in 1 .. Len(pending) :
          pending[k].signal_type # "arbitrage"
          => /\ pending[k].count >= 1
             /\ pending[k].count * pending[k].limit_price_cents
                   <= trade_settings.paper_trade_max_position_dollars
             /\ OrderCost(pending[k]) <= Headroom(k)
             /\ Headroom(k) > 0

(* a candidate is skipped by a call that began with no headroom left,      *)
(* after earlier orders were sized up to the portfolio limit               *)
C16_Witness ==
    /\ trace.call = "execute"
    /\ trade_settings.paper_trade_sizing_mode = "kelly"
    /\ trace.orders_before = 2
    /\ orders[2].count = 2
    /\ orders[2].signal_type # "arbitrage"
    /\ Headroom(1) = 0
    /\ trace.visited = 1
    /\ stats.paper_orders_skipped = 1
    /\ pending = <<>>
    /\ ~has_recent_paper_order(signals[1].market_ticker, signals[1].direction,
                               now - paper_trade_cooldown_minutes)
    /\ book[signals[1].market_ticker] \in Books

(* ---- ticks of the pipeline ---- *)

(* the tick has placed no order and canceled none, and has not called      *)
(* execute; reconcile_open_orders, if called, got allow_reprice = false    *)
NothingTraded ==
    /\ ~tick.execute_called
    /\ Len(orders) + Len(pending) = tick.rows_before
    /\ Len(cancel_log) = tick.cancels_before
    /\ trace.call = "reconcile" => trace.cancels = <<>> /\ trace.places = <<>>
    /\ tick.reconcile_called => ~tick.allow_reprice

BlockedTick == tick.kind # "none" /\ tick.always_blocked

C14_GateBlocksWeatherOrders ==
    (tick.kind = "run_once" /\ tick.weather_gate_blocked)
    => /\ \A i \in (tick.rows_before + 1) .. Len(orders) :
             orders[i].signal_type # "weather"
       /\ \A k \in 1 .. Len(pending) : pending[k].signal_type # "weather"

(* ---- WSManager.run and close ---- *)

(* C21: after close() is called at any point of run(), run() eventually   *)
(* ends and no further connect attempt is started                          *)
C21_CloseEndsRun ==
    /\ [](wire.close_called => wire.connects_after_close = 0)
    /\ (wire.close_called ~> ws.pc \in EndedPcs)

(* C22: while close() was not called and the task was not cancelled, no    *)
(* exception ends run(): it neither returns nor raises                     *)
C22_ExceptionsNeverEndRun ==
    (~wire.close_called /\ ~wire.cancel_requested) => ws.pc \notin EndedPcs

(* ---- KalshiFeed ---- *)

(* C23: an orderbook delta whose seq is not above the seq recorded for its *)
(* ticker leaves the books, the seq and the best prices as they were       *)
C23_StaleDeltaIgnored ==
    [][feed'.last.stale => feed'.orderbooks = feed.orderbooks]_vars

(* C24: the cached best prices are those of the books: best_yes_bid is the *)
(* highest YES price, best_yes_ask is 100 minus the highest NO price       *)
C24_BestPricesFollowBooks ==
    \A ticker \in FeedTickers :
        feed.orderbooks[ticker] = refresh_best_prices(feed.orderbooks[ticker])

(* C25: every level stored in a book has a positive quantity *)
C25_LevelsArePositive ==
    \A ticker \in FeedTickers : \A price \in FeedPrices :
        /\ feed.orderbooks[ticker].yes[price] \in {Missing} \cup (1 .. MaxQuantity)
        /\ feed.orderbooks[ticker].no[price] \in {Missing} \cup (1 .. MaxQuantity)

(* ---- operational alerts ---- *)

(* C26: two passes of the same message text through the filter are at      *)
(* least six hours apart, whichever caller made the calls                  *)
C26_OncePerCooldown ==
    \A text \in AlertTexts : ~alerts.passed[text].early


(* ---- run_once ---- *)

(* the store writes the ordering rule names, in the order it gives them *)
WriteOrder == <<"markets", "snapshots", "ensemble", "crypto_ticks", "signals",
                "orders", "reconcile_order_events", "alert_events">>
Ranked == {WriteOrder[i] : i \in DOMAIN WriteOrder}
rank(class) == CHOOSE i \in DOMAIN WriteOrder : WriteOrder[i] = class

(* C27: within one run_once tick the store writes occur in the order       *)
(* markets, snapshots, ensemble samples, crypto ticks, signals, orders with *)
(* their initial events (insert_paper_trade_orders), order events written   *)
(* by reconciliation, alert events: no write of an earlier class comes      *)
(* after a write of a later class                                           *)
C27_StoreWriteOrder ==
    \A i, j \in DOMAIN cycle.writes :
        (i < j /\ cycle.writes[i] \in Ranked /\ cycle.writes[j] \in Ranked)
            => rank(cycle.writes[i]) <= rank(cycle.writes[j])


(* the stages a tick with these settings goes through when nothing raises *)
DueStages(settings) ==
    {"signals", "resolution", "alerting", "stats"}
    \cup (IF settings.weather_enabled THEN {"weather"} ELSE {})
    \cup (IF settings.btc_enabled THEN {"btc"} ELSE {})
    \cup (IF settings.runtime_mode \in {"live_safe", "live_auto"} THEN {"gate"} ELSE {})
    \cup (IF ~settings.paused /\ settings.runtime_auto_trading_enabled
          THEN {"execute"} ELSE {})
    \cup (IF settings.paper_trading_mode = "kalshi_demo" THEN {"reconcile"} ELSE {})

(* C30: a tick whose market listing and markets/snapshots writes succeed    *)
(* returns its stats and updates last_poll_at: an exception raised during   *)
(* weather or BTC collection, signal generation, resolution tracking,       *)
(* execution or reconciliation, arbitrage persistence or alerting is        *)
(* caught, and every later stage of the tick still runs                     *)
C30_FailuresAreContained ==
    /\ cycle.pc = "raised"
          => cycle.failed \cap {"list_markets", "upsert_markets", "insert_snapshots"} # {}
    /\ (cycle.pc = "returned" /\ "snapshots" \in {cycle.writes[i] : i \in DOMAIN cycle.writes})
          => /\ cycle.stats
             /\ cycle.last_poll_at = "now"
             /\ DueStages(cycle.settings) \subseteq cycle.ran


(* ---- bracket arbitrage ---- *)

(* C29: every opportunity scan_bracket_arbitrage returns has leg prices and *)
(* per-leg taker fees that sum to less than payout_cents (100 for all_yes,  *)
(* (n - 1) * 100 for all_no), profit_cents = payout_cents - cost_cents > 0, *)
(* and max_sets equal to the smallest leg depth and above zero              *)
C29_OpportunityIsProfitable ==
    (scan.pc = "returned" /\ scan.result # NoCandidate) =>
        LET opp == scan.result
            legs == opp.legs
        IN /\ opp.payout_cents = (IF opp.arb_type = "all_yes" THEN 100
                                  ELSE (Len(legs) - 1) * 100)
           /\ total_cost(legs) + total_fees(legs) < opp.payout_cents
           /\ opp.cost_cents = total_cost(legs)
           /\ opp.profit_cents = opp.payout_cents - opp.cost_cents
           /\ opp.profit_cents > 0
           /\ opp.max_sets > 0
           /\ \A i \in DOMAIN legs : opp.max_sets <= legs[i].depth
           /\ \E i \in DOMAIN legs : opp.max_sets = legs[i].depth

(* an all_yes and an all_no opportunity are returned, one of them limited  *)
(* by the depth of one leg, one with a price kept within 1..99              *)
C29_Witness ==
    /\ scan.pc = "returned"
    /\ scan.result # NoCandidate
    /\ scan.result.arb_type = "all_no"
    /\ Len(scan.result.legs) = 3
    /\ \E i, j \in DOMAIN scan.result.legs :
          scan.result.legs[i].depth < scan.result.legs[j].depth


(* ---- AsyncRuntime ---- *)

(* C28: when AsyncRuntime.run shuts down, because a supervised task failed *)
(* or the runtime was cancelled, close() of every feed is called before the *)
(* poll task is cancelled, and a run_once tick in flight completes before   *)
(* run() returns                                                            *)
C28_FeedsCloseBeforePollCancel ==
    runtime.pc # "none" =>
        /\ \A i \in DOMAIN runtime.shutdown :
              runtime.shutdown[i] = <<"cancel", "periodic_poll_loop">> =>
                  \A f \in DOMAIN RuntimeFeeds :
                      (RuntimeFeeds[f] # "kalshi_feed" \/ runtime.kalshi_feed) =>
                          \E j \in 1 .. (i - 1) : runtime.shutdown[j] = <<"close", RuntimeFeeds[f]>>
        /\ runtime.pc = "ended" => ~runtime.in_flight_at_end


(* C31: in a live-mode tick where a weather live gate fails, the stats     *)
(* run_once returns hold weather_gate_blocked = 1, whether or not the       *)
(* execution engine runs in that tick (the stats take the key from          *)
(* paper_stats at line 572)                                                 *)
C31_GateBlockedIsReported ==
    (cycle.pc = "returned" /\ cycle.gate_failed) => cycle.weather_gate_blocked = 1


(* ---- repeated reconciliation ---- *)

(* C32: if the normalized exchange status of an open order and its queue   *)
(* position are the same in two consecutive reconcile_open_orders calls,    *)
(* the second call appends no order event for that order (an order the      *)
(* second call tries to reprice is left aside)                              *)
C32_UnchangedOrderLogsNothing ==
    (trace.call = "reconcile" /\ pc = "idle") =>
        \A seen \in SeenOpen(trace) \cap trace.previous :
            (\A c \in DOMAIN trace.cancels : trace.cancels[c].order_id # seen.order_id)
               => \A k \in (trace.events_before + 1) .. Len(events) :
                      events[k].order_id # seen.order_id

(* C33: a reader in the poll thread that gets a ticker's book from the     *)
(* feed never sees a partly applied message: the YES side and the NO side  *)
(* it read are those of the book after one and the same prefix of the      *)
(* received messages.                                                      *)
C33_ReaderSeesWholeMessages ==
    (reader.pc # "none" /\ reader.pos = "done") =>
        \E applied \in reader.prefixes :
            reader.seen.yes = applied.yes /\ reader.seen.no = applied.no

(* C34: the writes of a store method become durable all or nothing: while  *)
(* a method of one caller is in progress, no commit of another caller has  *)
(* made any of its rows durable, so that no order row is durable without   *)
(* its initial event.                                                      *)
C34_MethodsAreAtomic ==
    store.pc = "open" =>
        /\ \A caller \in StoreCallers :
              store.call[caller].pc # "idle" =>
                  store.call[caller].written \cap store.durable = {}
        /\ \A row \in store.durable :
              row.table = "paper_trade_orders" =>
                  Row("paper_trade_order_events", row.id) \in store.durable

(* C35: in a reprice the replacement is placed only after cancel_order for *)
(* the old order returned; when cancel_order raises, a                     *)
(* queue_refresh_failed event of the order is appended, its stored status  *)
(* stays open and the call places no replacement for it.                   *)
C35_ReplaceOnlyAfterCancel ==
    trace.call = "reconcile" =>
        /\ \A p \in DOMAIN trace.places :
              \E c \in DOMAIN trace.cancels :
                  /\ trace.cancels[c].order_id = trace.places[p].old_order_id
                  /\ trace.cancels[c].returned
        /\ \A c \in DOMAIN trace.cancels :
              ~trace.cancels[c].returned =>
                  /\ \E k \in EventsOfCallFor(trace.cancels[c].order_id) :
                         events[k].status = "queue_refresh_failed"
                  /\ orders[trace.cancels[c].order_id].status \in OpenStatuses
                  /\ \A p \in DOMAIN trace.places :
                         trace.places[p].old_order_id # trace.cancels[c].order_id

(* one call in which a cancel raised and, for another order, a cancel      *)
(* returned and its replacement was placed                                 *)
C35_Witness ==
    /\ trace.call = "reconcile"
    /\ \E c \in DOMAIN trace.cancels : ~trace.cancels[c].returned
    /\ trace.places # <<>>

(* C36: every order the exchange accepted during execute or                *)
(* reconcile_open_orders has a row in the store when the call ends, also   *)
(* when the call ends because a store operation raised.                    *)
C36_AcceptedOrdersAreStored ==
    (pc = "idle" /\ trace.call \in {"execute", "reconcile"} /\ phase # "start") =>
        \A k \in DOMAIN pending :
            pending[k].status = "submitted" =>
                \E i \in DOMAIN orders :
                    /\ i > trace.orders_before
                    /\ orders[i].external_order_id = pending[k].external_order_id

C38_SentOncePerConnection ==
    \A payload \in 1 .. wire.subscribed :
        LET sends == Cardinality({k \in DOMAIN wire.sent : wire.sent[k] = payload})
        IN /\ sends <= 1
           /\ ws.pc = "listen" => sends = 1

(* C39: in one execute call the orders attempted stay within               *)
(* paper_trade_max_orders_per_cycle, except that the arbitrage opportunity *)
(* that is the first attempt of the call is submitted in full; once the    *)
(* cap is reached no step of the call attempts another order.              *)
AttemptsWithinCap ==
    (pc = "execute" /\ stats'.paper_orders_attempted > stats.paper_orders_attempted) =>
        \/ stats'.paper_orders_attempted <= paper_trade_max_orders_per_cycle
        \/ stats.paper_orders_attempted = 0 /\ arb.todo # <<>>

C39_AttemptsWithinCap == [][AttemptsWithinCap]_vars

(* a call whose first opportunity had more legs than the cap and was       *)
(* submitted in full, after which the call attempted nothing more and      *)
(* recorded its orders                                                     *)
C39_Witness ==
    /\ pc = "idle"
    /\ phase = "executed"
    /\ stats.paper_orders_attempted > paper_trade_max_orders_per_cycle
    /\ stats.paper_orders_recorded = stats.paper_orders_attempted
    /\ stats.paper_orders_candidates > 0

(* C40: after any lifecycle messages, subscribe failures and reconnects    *)
(* the replay list of the Kalshi manager holds at most one market          *)
(* subscription per ticker, and none for a ticker outside KXBTC15M.        *)
C40_OneSubscriptionPerTicker ==
    lifecycle.pc # "none" =>
        \A ticker \in {strip_upper(t) : t \in LifecycleTickers} :
            LET buffered_for == {k \in DOMAIN lifecycle.subscriptions :
                                    lifecycle.subscriptions[k] = ticker}
            IN /\ Cardinality(buffered_for) <= 1
               /\ ~startswith_KXBTC15M(ticker) => buffered_for = {}

====
